---- MODULE Spec2Model ----
(***************************************************************************)
(* Model of the multi-signal fusion engine of the bug localizer:           *)
(*   scripts/agents/judge_agent.py        JudgeAgent                       *)
(*   scripts/agents/bug_type_classifier.py BugTypeClassifier               *)
(*   scripts/agents/langgraph_orchestrator.py BugLocalizationGraph         *)
(*                                                                         *)
(* Numbers.  The code computes with floats; the model computes with exact  *)
(* rationals held as integers over fixed denominators:                     *)
(*   a score s is the integer 10*s            (SScale)                     *)
(*   a confidence c is the integer 10*c       (CScale)                     *)
(*   a weight is num/den, [num |-> (signal -> Int), den |-> Int]           *)
(*   a final score is num/den with den = FinalDen(weights)                 *)
(* Rounding of the floating point operations is not modelled.              *)
(***************************************************************************)
EXTENDS Integers, Sequences, FiniteSets, TLC

VARIABLES
    weights,    \* JudgeAgent.weights of the (shared) judge
    cands,      \* standalone judge call: the candidates argument
    sts,        \* ... stack_trace_scores argument (a dict: partial function)
    bms,        \* ... bm25_scores argument
    pts,        \* ... pattern_scores argument
    tes,        \* ... test_scores argument
    btype,      \* ... bug_type argument of the latest judge call
    lastCall,   \* the most recent call on the judge and its argument
    ret,        \* what that call returned
    runs,       \* BugLocalizationGraph.localize calls in flight: id -> AgentState
    localizer,  \* the BugLocalizer: use_llm, llm_provider, last_api_call, ...
    ext,        \* the BugLocalizer call in progress, or the last one returned
    now,        \* time.time(), in seconds
    bm25,       \* the BM25Ranker: N, avgdl, doc_freqs, doc_lens, doc_terms, doc_metadata
    queries     \* score and rank calls on the ranker: caller -> call

judgeVars == <<weights, cands, sts, bms, pts, tes, btype, lastCall, ret>>

localizerVars == <<localizer, ext, now>>

rankerVars == <<bm25, queries>>

vars == <<weights, cands, sts, bms, pts, tes, btype, lastCall, ret, runs,
          localizer, ext, now, bm25, queries>>

(***************************************************************************)
(* Scales of the fixed-point representation                                *)
(***************************************************************************)
\* a score is held in tenths: the 1.0 of a stack trace hit is 10
SScale == 10
\* a confidence is held in tenths: 1.0, 0.5, 0.8, 0.7, 0.6 are 10, 5, 8, 7, 6
CScale == 10
\* a weight of a profile is held in hundredths: 0.35 is 35
WScale == 100
\* the consensus bonus 1.1 and the conflict factor 0.95 are 110 and 95 hundredths
MScale == 100

Names == {"Bar", "Foo", "Qux"}

\* position of a class name in ascending string order
NameRank == [n \in Names |-> CASE n = "Bar" -> 1 [] n = "Foo" -> 2 [] OTHER -> 3]

\* the constructor's weights=None
None == [none |-> TRUE]

\* the keys of agent_scores, in the insertion order of the dict literal
SignalSeq == <<"stack_trace", "bm25", "pattern", "test">>

Signals == {SignalSeq[i] : i \in 1..Len(SignalSeq)}

RECURSIVE SumSeq(_)
SumSeq(s) == IF s = <<>> THEN 0 ELSE Head(s) + SumSeq(Tail(s))

RECURSIVE SumFun(_, _)
\* sum(f.values()) over the keys in D
SumFun(f, D) ==
    IF D = {} THEN 0
    ELSE LET k == CHOOSE x \in D : TRUE IN f[k] + SumFun(f, D \ {k})

\* dict.get(k, 0.0)
Get(m, k) == IF k \in DOMAIN m THEN m[k] ELSE 0

(***************************************************************************)
(* JudgeAgent: weights                                                     *)
(***************************************************************************)
Profile(st, bm, pt, te) ==
    [num |-> [s \in Signals |->
                CASE s = "stack_trace" -> st
                  [] s = "bm25" -> bm
                  [] s = "pattern" -> pt
                  [] OTHER -> te],
     den |-> WScale]

DEFAULT_WEIGHTS == Profile(35, 30, 20, 15)

\* sum(self.weights.values()), as a numerator over w.den
WeightTotal(w) == SumFun(w.num, DOMAIN w.num)

\* the sum of the weights is exactly 1.0
SumsToOne(w) == WeightTotal(w) = w.den

AllZero(w) == \A s \in DOMAIN w.num : w.num[s] = 0

\* JudgeAgent._normalize_weights: v/total for every key when total > 0
NormalizeWeights(w) ==
    IF WeightTotal(w) > 0 THEN [num |-> w.num, den |-> WeightTotal(w)] ELSE w

\* JudgeAgent.__init__: weights or DEFAULT_WEIGHTS.copy(), then normalize
\* (None and the empty dict are both falsy)
InitWeights(arg) ==
    IF arg = None \/ DOMAIN arg.num = {}
    THEN NormalizeWeights(DEFAULT_WEIGHTS)
    ELSE NormalizeWeights(arg)

\* self.weights.get(signal, 0.0), as a numerator over w.den
WeightGet(w, s) == IF s \in DOMAIN w.num THEN w.num[s] ELSE 0

(***************************************************************************)
(* JudgeAgent.judge                                                        *)
(***************************************************************************)
\* the confidence the judge attaches to each signal (tenths)
Confidence(c, stm, s) ==
    CASE s = "stack_trace" -> IF c \in DOMAIN stm THEN 10 ELSE 5
      [] s = "bm25" -> 8
      [] s = "pattern" -> 7
      [] OTHER -> 6

\* the agent_scores dict built for candidate c: signal -> (score, confidence)
AgentScores(c, stm, bmm, ptm, tem) ==
    [s \in Signals |->
        [score |-> CASE s = "stack_trace" -> Get(stm, c)
                     [] s = "bm25" -> Get(bmm, c)
                     [] s = "pattern" -> Get(ptm, c)
                     [] OTHER -> Get(tem, c),
         confidence |-> Confidence(c, stm, s)]]

\* std_dev < t/10, for the variance varNum / (n^3 * SScale^2)
StdBelow(varNum, n, t) == 100 * varNum < t * t * n * n * n * SScale * SScale

\* std_dev > t/10
StdAbove(varNum, n, t) == 100 * varNum > t * t * n * n * n * SScale * SScale

\* JudgeAgent._check_consensus with the conflict threshold read as >= 0.2
CheckConsensusLowConflict(as) ==
    LET pos == {s \in Signals : as[s].score > 0}
        n == Cardinality(pos)
        total == SumFun([s \in pos |-> as[s].score], pos)
        varNum == SumFun([s \in pos |->
                           (n * as[s].score - total) * (n * as[s].score - total)],
                         pos)
    IN  IF n = 0 THEN <<FALSE, FALSE>>
        ELSE IF StdBelow(varNum, n, 2) THEN <<TRUE, FALSE>>
        ELSE IF ~StdBelow(varNum, n, 2) THEN <<FALSE, TRUE>>
        ELSE <<FALSE, FALSE>>

\* JudgeAgent._check_consensus: <<consensus, conflict_resolved>>
\* mean = total/n, variance = sum((s - mean)^2)/n = varNum / (n^3 * SScale^2)
CheckConsensus(as) ==
    LET pos == {s \in Signals : as[s].score > 0}
        n == Cardinality(pos)
        total == SumFun([s \in pos |-> as[s].score], pos)
        varNum == SumFun([s \in pos |->
                           (n * as[s].score - total) * (n * as[s].score - total)],
                         pos)
    IN  IF n = 0 THEN <<FALSE, FALSE>>
        ELSE IF StdBelow(varNum, n, 2) THEN <<TRUE, FALSE>>
        ELSE IF StdAbove(varNum, n, 4) THEN <<FALSE, TRUE>>
        ELSE <<FALSE, FALSE>>

\* the denominator of every final score computed with weights w
FinalDen(w) == w.den * SScale * CScale * MScale * MScale

\* weighted_sum before the clamp, as a numerator over FinalDen(w)
WeightedSum(as, consensus, conflict, w) ==
    LET raw == SumSeq([i \in 1..Len(SignalSeq) |->
                  WeightGet(w, SignalSeq[i]) * as[SignalSeq[i]].score
                      * as[SignalSeq[i]].confidence])
        bonus == IF consensus THEN 110 ELSE 100
        penalty == IF conflict THEN 95 ELSE 100
    IN  raw * bonus * penalty

\* _calculate_final_score with every signal given the bm25 confidence 0.8
FinalScoreFlatConfidence(as, consensus, conflict, w) ==
    LET flat == [s \in Signals |-> [score |-> as[s].score, confidence |-> 8]]
        ws == WeightedSum(flat, consensus, conflict, w)
    IN  IF ws < FinalDen(w) THEN ws ELSE FinalDen(w)

\* JudgeAgent._calculate_final_score: min(weighted_sum, 1.0)
CalculateFinalScore(as, consensus, conflict, w) ==
    LET ws == WeightedSum(as, consensus, conflict, w)
    IN  IF ws < FinalDen(w) THEN ws ELSE FinalDen(w)

\* sorted(agent_scores.items(), key=score*weight, reverse=True)[0]: the first
\* signal, in dict order, whose score*weight is the largest
TopSignal(as, w) ==
    LET key(s) == as[s].score * WeightGet(w, s)
        best == {i \in 1..Len(SignalSeq) :
                    \A j \in 1..Len(SignalSeq) : key(SignalSeq[j]) <= key(SignalSeq[i])}
    IN  SignalSeq[CHOOSE i \in best : \A j \in best : i <= j]

\* JudgeAgent._generate_explanation: the parts joined by "; "
GenerateExplanation(as, consensus, bt, w) ==
    LET top == TopSignal(as, w)
        parts ==
            (IF as[top].score > 0 THEN <<<<"Primary signal", top, as[top].score>>>> ELSE <<>>)
            \o (IF consensus THEN <<<<"Agents agree on this candidate">>>> ELSE <<>>)
            \o (IF bt /= "GENERIC" THEN <<<<"Bug type", bt>>>> ELSE <<>>)
            \o (IF 10 * as["stack_trace"].score > 5 * SScale
                THEN <<<<"Directly mentioned in stack trace">>>> ELSE <<>>)
    IN  IF parts /= <<>> THEN parts ELSE <<<<"Low confidence candidate">>>>

\* the CandidateJudgment built in the loop body of judge, rank still 0
Judgment(c, stm, bmm, ptm, tem, bt, w) ==
    LET as == AgentScores(c, stm, bmm, ptm, tem)
        cc == CheckConsensus(as)
    IN  [class_name |-> c,
         final_score |-> CalculateFinalScore(as, cc[1], cc[2], w),
         agent_scores |-> as,
         consensus |-> cc[1],
         conflict_resolved |-> cc[2],
         explanation |-> GenerateExplanation(as, cc[1], bt, w),
         rank |-> 0]

\* insert j behind every element whose score is >= its own
InsertDesc(sorted, j) ==
    LET k == Cardinality({i \in 1..Len(sorted) : sorted[i].final_score >= j.final_score})
    IN  SubSeq(sorted, 1, k) \o <<j>> \o SubSeq(sorted, k + 1, Len(sorted))

RECURSIVE SortDescStable(_)
\* judgments.sort(key=lambda x: x.final_score, reverse=True): list.sort is
\* stable, and with reverse=True equal elements keep their original order
SortDescStable(js) ==
    IF js = <<>> THEN <<>>
    ELSE InsertDesc(SortDescStable(SubSeq(js, 1, Len(js) - 1)), js[Len(js)])

\* the rank loop with enumerate(judgments) used as is (ranks from 0)
AssignRanksFromZero(js) == [i \in 1..Len(js) |-> [js[i] EXCEPT !.rank = i - 1]]

\* for i, judgment in enumerate(judgments): judgment.rank = i + 1
AssignRanks(js) == [i \in 1..Len(js) |-> [js[i] EXCEPT !.rank = i]]

\* consensus_count / len(candidates) if candidates else 0.0, as <<num, den>>
ConsensusRate(js) ==
    IF js = <<>> THEN <<0, 1>>
    ELSE <<Cardinality({i \in 1..Len(js) : js[i].consensus}), Len(js)>>

\* JudgeAgent.judge: the JudgmentResult
Judge(cs, stm, bmm, ptm, tem, bt, w) ==
    LET js == [i \in 1..Len(cs) |-> Judgment(cs[i], stm, bmm, ptm, tem, bt, w)]
    IN  [kind |-> "judgment",
         candidates |-> AssignRanks(SortDescStable(js)),
         bug_type |-> bt,
         weights_used |-> w,
         consensus_rate |-> ConsensusRate(js)]

(***************************************************************************)
(* A JudgeAgent used directly: JudgeAgent(), then set_weights and judge    *)
(* called in any order on arguments fixed at the start.  The candidates    *)
(* are distinct class names.  judge reads its four dicts only at the       *)
(* candidates' names, so their keys are drawn from the names of the        *)
(* candidate list.  The arguments are either one candidate with scores     *)
(* from the wide value sets, or any list of candidates with scores from    *)
(* the narrow ones.                                                        *)
(***************************************************************************)
SeqsUpTo(S, n) == UNION {[1..k -> S] : k \in 0..n}

PartialFuns(D, V) == UNION {[K -> V] : K \in SUBSET D}

Range(f) == {f[i] : i \in DOMAIN f}

\* duplicate-free lists over S
DistinctSeqs(S) ==
    {q \in SeqsUpTo(S, Cardinality(S)) :
        \A i, j \in 1..Len(q) : i /= j => q[i] /= q[j]}

StackVals == {0, 10}
Bm25Vals == {-5, 10, 15}
PatternVals == {0, 2, 6}
TestVals == {0, 1, 10}

StackValsNarrow == {10}
Bm25ValsNarrow == {2}
PatternValsNarrow == {0}
TestValsNarrow == {0, 1}
BugTypeArgs == {"GENERIC", "NPE"}

\* the weight profiles installed on the judge whose judge calls are checked
ZeroProfile == Profile(0, 0, 0, 0)
BigProfile == Profile(70, 60, 40, 30)
StackOnlyProfile == [num |-> [s \in {"stack_trace"} |-> 100], den |-> WScale]
JudgeProfiles == {ZeroProfile, BigProfile, StackOnlyProfile}

\* the weight profiles installed where the weights themselves are checked
WeightVals == {0, 30, 70}
WeightArgs == {[num |-> f, den |-> WScale] : f \in PartialFuns(Signals, WeightVals)}

NoRuns == [c \in {} |-> 0]

EmptyDict == [k \in {} |-> 0]

\* no BugLocalizer has been built
LocalizerUnused ==
    /\ localizer = None
    /\ ext = None
    /\ now = 0

\* no BM25Ranker has been built
RankerUnused ==
    /\ bm25 = None
    /\ queries = NoRuns

JudgeInit ==
    /\ \/ /\ cands \in SeqsUpTo(Names, 1)
          /\ sts \in PartialFuns(Range(cands), StackVals)
          /\ bms \in PartialFuns(Range(cands), Bm25Vals)
          /\ pts \in [Range(cands) -> PatternVals]
          /\ tes \in [Range(cands) -> TestVals]
       \/ /\ cands \in DistinctSeqs(Names)
          /\ sts \in PartialFuns(Range(cands), StackValsNarrow)
          /\ bms \in PartialFuns(Range(cands), Bm25ValsNarrow)
          /\ pts \in [Range(cands) -> PatternValsNarrow]
          /\ tes \in [Range(cands) -> TestValsNarrow]
    /\ btype = "GENERIC"
    /\ weights = InitWeights(None)
    /\ lastCall = [op |-> "init", arg |-> None]
    /\ ret = [kind |-> "none"]
    /\ runs = NoRuns
    /\ LocalizerUnused
    /\ RankerUnused

\* judge.set_weights(w): returns None
SetWeights(w) ==
    /\ weights' = NormalizeWeights(w)
    /\ lastCall' = [op |-> "set_weights", arg |-> w]
    /\ ret' = [kind |-> "none"]
    /\ UNCHANGED <<cands, sts, bms, pts, tes, btype, runs, localizerVars, rankerVars>>

\* judge.judge as a method that puts DEFAULT_WEIGHTS back when it is done
JudgeCallResetting(bt) ==
    /\ ret' = Judge(cands, sts, bms, pts, tes, bt, weights)
    /\ btype' = bt
    /\ lastCall' = [op |-> "judge", arg |-> None,
                    repeated |-> lastCall.op = "judge" /\ btype = bt]
    /\ weights' = InitWeights(None)
    /\ UNCHANGED <<cands, sts, bms, pts, tes, runs, localizerVars, rankerVars>>

\* judge.judge(cands, sts, bms, pts, tes, bt); repeated records that the
\* call before it was judge with the same arguments
JudgeCall(bt) ==
    /\ ret' = Judge(cands, sts, bms, pts, tes, bt, weights)
    /\ btype' = bt
    /\ lastCall' = [op |-> "judge", arg |-> None,
                    repeated |-> lastCall.op = "judge" /\ btype = bt]
    /\ UNCHANGED <<weights, cands, sts, bms, pts, tes, runs, localizerVars, rankerVars>>

JudgeNext ==
    \/ \E w \in JudgeProfiles : SetWeights(w)
    \/ \E bt \in BugTypeArgs : JudgeCall(bt)

SpecJudge == JudgeInit /\ [][JudgeNext]_vars

(***************************************************************************)
(* The weights of a JudgeAgent: JudgeAgent(arg) for any profile of the     *)
(* grid (or None), then set_weights with any profile and judge on one      *)
(* fixed pair of candidates.                                               *)
(***************************************************************************)
WeightsInit ==
    /\ cands = <<"Foo", "Bar">>
    /\ sts = [n \in {"Foo"} |-> 10]
    /\ bms = [n \in Names |-> IF n = "Foo" THEN 2 ELSE 10]
    /\ pts = [n \in Names |-> 0]
    /\ tes = [n \in Names |-> IF n = "Foo" THEN 0 ELSE 1]
    /\ btype = "GENERIC"
    /\ \E arg \in WeightArgs \cup {None} :
          /\ weights = InitWeights(arg)
          /\ lastCall = [op |-> "init", arg |-> arg]
    /\ ret = [kind |-> "none"]
    /\ runs = NoRuns
    /\ LocalizerUnused
    /\ RankerUnused

WeightsNext ==
    \/ \E w \in WeightArgs : SetWeights(w)
    \/ JudgeCall("GENERIC")

SpecWeights == WeightsInit /\ [][WeightsNext]_vars

(***************************************************************************)
(* BugTypeClassifier                                                       *)
(***************************************************************************)
\* the keys of BUG_PATTERNS, in the insertion order of the dict literal
BugTypeSeq == <<"NPE", "CCE", "CME", "AIOBE", "IAE", "ISE", "IOE">>

BugTypes == {BugTypeSeq[i] : i \in 1..Len(BugTypeSeq)}

\* BugTypeClassifier.WEIGHT_PROFILES
WEIGHT_PROFILES ==
    [t \in BugTypes \cup {"GENERIC"} |->
        CASE t = "NPE" -> Profile(35, 25, 25, 15)
          [] t = "CCE" -> Profile(30, 30, 25, 15)
          [] t = "CME" -> Profile(35, 20, 30, 15)
          [] t = "AIOBE" -> Profile(40, 25, 20, 15)
          [] t = "IAE" -> Profile(30, 30, 20, 20)
          [] t = "ISE" -> Profile(30, 25, 25, 20)
          [] t = "IOE" -> Profile(35, 30, 15, 20)
          [] OTHER -> Profile(35, 30, 20, 15)]

\* classify with the first category that has a match taken for the best
ClassifyFirstMatch(m) ==
    IF \A t \in BugTypes : m[t] = 0
    THEN [bug_type |-> "GENERIC", confidence |-> <<1, 2>>,
          weights |-> WEIGHT_PROFILES["GENERIC"]]
    ELSE LET first == CHOOSE i \in 1..Len(BugTypeSeq) :
                         /\ m[BugTypeSeq[i]] > 0
                         /\ \A k \in 1..(i - 1) : m[BugTypeSeq[k]] = 0
             total == SumSeq([i \in 1..Len(BugTypeSeq) |-> m[BugTypeSeq[i]]])
         IN  [bug_type |-> BugTypeSeq[first],
              confidence |-> <<m[BugTypeSeq[first]], total>>,
              weights |-> WEIGHT_PROFILES[BugTypeSeq[first]]]

\* BugTypeClassifier.classify on a report whose text gives the patterns of
\* bug type t m[t] matches in all (the sum of len(findall) over its regexes);
\* confidence is the pair <<numerator, denominator>>
Classify(m) ==
    IF \A t \in BugTypes : m[t] = 0
    THEN [bug_type |-> "GENERIC", confidence |-> <<1, 2>>,
          weights |-> WEIGHT_PROFILES["GENERIC"]]
    ELSE LET \* max(scores, key=scores.get): the first key with the largest score
             best == CHOOSE i \in 1..Len(BugTypeSeq) :
                        /\ \A k \in 1..Len(BugTypeSeq) : m[BugTypeSeq[k]] <= m[BugTypeSeq[i]]
                        /\ \A k \in 1..(i - 1) : m[BugTypeSeq[k]] < m[BugTypeSeq[i]]
             total == SumSeq([i \in 1..Len(BugTypeSeq) |-> m[BugTypeSeq[i]]])
         IN  [bug_type |-> BugTypeSeq[best],
              confidence |-> <<m[BugTypeSeq[best]], total>>,
              weights |-> WEIGHT_PROFILES[BugTypeSeq[best]]]

\* BugTypeClassifier.adjust_weights for the confidence c[1]/c[2]: below 0.8
\* each weight is confidence * base + (1 - confidence) * generic
AdjustWeights(base_weights, c) ==
    IF 10 * c[1] >= 8 * c[2] THEN base_weights
    ELSE [num |-> [s \in DOMAIN base_weights.num |->
                      c[1] * base_weights.num[s]
                          + (c[2] - c[1]) * WEIGHT_PROFILES["GENERIC"].num[s]],
          den |-> c[2] * base_weights.den]

(***************************************************************************)
(* A BugTypeClassifier used directly: classify called on a report text,    *)
(* held by the number of matches it gives the patterns of each bug type.   *)
(***************************************************************************)
\* the most matches a report gives one bug type
MaxMatches == 2

MatchVectors == [BugTypes -> 0..MaxMatches]

ClassifyInit ==
    /\ \E m \in MatchVectors : lastCall = [op |-> "init", arg |-> m]
    /\ ret = [kind |-> "none"]
    /\ weights = InitWeights(None)
    /\ cands = <<>>
    /\ sts = EmptyDict
    /\ bms = EmptyDict
    /\ pts = EmptyDict
    /\ tes = EmptyDict
    /\ btype = "GENERIC"
    /\ runs = NoRuns
    /\ LocalizerUnused
    /\ RankerUnused

\* classifier.classify(bug_report)
ClassifyCall ==
    /\ lastCall.op = "init"
    /\ ret' = [kind |-> "classification", value |-> Classify(lastCall.arg)]
    /\ lastCall' = [op |-> "classify", arg |-> lastCall.arg]
    /\ UNCHANGED <<weights, cands, sts, bms, pts, tes, btype, runs, localizerVars, rankerVars>>

ClassifyNext == ClassifyCall

SpecClassify == ClassifyInit /\ [][ClassifyNext]_vars

(***************************************************************************)
(* BugLocalizationGraph                                                    *)
(*                                                                         *)
(* A bug report is held by what the stages read from its text:             *)
(*   frames    the stack-frame lines "at p.q.Cls.method(...)", each as the *)
(*             dot-separated parts in front of the "("                     *)
(*   words     the capitalised words with a lower-case letter              *)
(*   matches   the number of BUG_PATTERNS matches per bug type             *)
(*   tests     the test-like tokens (TestX, XTest, testX(), @Test)         *)
(* The orchestrator is the one BugLocalizationGraph() builds: no BM25      *)
(* index, a PatternDetectionAgent without code structure and a             *)
(* TestFailureAgent without test index.                                    *)
(***************************************************************************)
Frame(cls) == <<"a", "b", cls, "run">>

NoMatches == [t \in BugTypes |-> 0]

Matches(t1, n1, t2, n2) ==
    [t \in BugTypes |-> IF t = t1 THEN n1 ELSE IF t = t2 THEN n2 ELSE 0]

TestTokens == {"BarTest"}

\* the class names n with n.lower() in token.lower()
LowerNamesIn == [token \in TestTokens |-> {"Bar"}]

\* a report whose stack trace names 21 classes, one frame each
DeepTraceClasses ==
    << "C01", "C02", "C03", "C04", "C05", "C06", "C07", "C08", "C09", "C10", "C11",
       "C12", "C13", "C14", "C15", "C16", "C17", "C18", "C19", "C20", "C21" >>

DeepTraceReport ==
    [frames |-> [i \in 1..Len(DeepTraceClasses) |-> Frame(DeepTraceClasses[i])],
     words |-> {"Foo"}, matches |-> NoMatches, tests |-> {}]

Reports ==
    { [frames |-> f, words |-> {"Foo"} \cup t, matches |-> m, tests |-> t] :
        f \in {<<>>, <<Frame("Foo"), <<"main">>, Frame("Bar"), Frame("Foo")>>},
        m \in {NoMatches, Matches("CCE", 1, "IAE", 1), Matches("NPE", 1, "AIOBE", 2)},
        t \in SUBSET TestTokens }
    \cup {DeepTraceReport}

Calls == {"c1", "c2"}

\* the bm25_ranker argument of BugLocalizationGraph.__init__
bm25_ranker == None

\* the nodes, as added by _build_graph
StageSeq ==
    <<"extract_info", "classify_bug", "get_candidates", "compute_bm25",
      "detect_patterns", "analyze_tests", "judge_fusion">>

Stages == {StageSeq[i] : i \in 1..Len(StageSeq)}

\* the tag each node puts in front of its agent_trace entry
TraceTag ==
    [n \in Stages |->
        CASE n = "extract_info" -> "[1] ExtractInfo"
          [] n = "classify_bug" -> "[2] BugClassifier"
          [] n = "get_candidates" -> "[3] GetCandidates"
          [] n = "compute_bm25" -> "[4a] BM25Agent"
          [] n = "detect_patterns" -> "[4b] PatternAgent"
          [] n = "analyze_tests" -> "[4c] TestAgent"
          [] OTHER -> "[5] JudgeAgent"]

\* workflow.set_entry_point
EntryPoint == "extract_info"

\* the edges with compute_bm25 left out of the chain
EdgesWithoutBm25 ==
    [n \in Stages |->
        CASE n = "extract_info" -> "classify_bug"
          [] n = "classify_bug" -> "get_candidates"
          [] n = "get_candidates" -> "detect_patterns"
          [] n = "compute_bm25" -> "detect_patterns"
          [] n = "detect_patterns" -> "analyze_tests"
          [] n = "analyze_tests" -> "judge_fusion"
          [] OTHER -> "END"]

\* workflow.add_edge(a, b), seven times: each node has one successor
Edges ==
    [n \in Stages |->
        CASE n = "extract_info" -> "classify_bug"
          [] n = "classify_bug" -> "get_candidates"
          [] n = "get_candidates" -> "compute_bm25"
          [] n = "compute_bm25" -> "detect_patterns"
          [] n = "detect_patterns" -> "analyze_tests"
          [] n = "analyze_tests" -> "judge_fusion"
          [] OTHER -> "END"]

\* st.split('.')[-1]: the class names of this model carry no dot
SimpleName(n) == n

\* the initial_state of localize
InitialState(report) ==
    [bug_report |-> report,
     keywords |-> {},
     stack_trace_classes |-> <<>>,
     potential_classes |-> {},
     bug_type |-> "GENERIC",
     bug_confidence |-> <<0, 1>>,
     dynamic_weights |-> [num |-> EmptyDict, den |-> WScale],
     candidate_names |-> <<>>,
     bm25_scores |-> EmptyDict,
     stack_trace_scores |-> EmptyDict,
     pattern_scores |-> EmptyDict,
     test_scores |-> EmptyDict,
     final_rankings |-> <<>>,
     consensus_rate |-> <<0, 1>>,
     agent_trace |-> <<>>,
     error |-> None]

RECURSIVE FrameClasses(_)
\* the stack trace loop of _extract_info_node: class_part is the text between
\* "at " and "(", kept when it has a dot, cut at its last dot
FrameClasses(frames) ==
    IF frames = <<>> THEN <<>>
    ELSE LET f == Head(frames)
         IN  (IF Len(f) >= 2 THEN <<SubSeq(f, 1, Len(f) - 1)>> ELSE <<>>)
             \o FrameClasses(Tail(frames))

\* _extract_info_node.  list(set(keywords)) has no defined order; the reports
\* have fewer than 15 words, so [:20] and [:15] cut nothing and the lists
\* are held as sets
ExtractInfoUpdate(st) ==
    [keywords |-> st.bug_report.words,
     stack_trace_classes |-> FrameClasses(st.bug_report.frames),
     potential_classes |-> st.bug_report.words,
     agent_trace |-> <<TraceTag["extract_info"]>>]

\* _classify_bug_node
ClassifyBugUpdate(st) ==
    LET c == Classify(st.bug_report.matches)
    IN  [bug_type |-> c.bug_type,
         bug_confidence |-> c.confidence,
         dynamic_weights |-> c.weights,
         agent_trace |-> <<TraceTag["classify_bug"]>>]

RECURSIVE AddStackClassesAll(_, _)
\* the loop over stack_trace_classes without its test "not in candidates"
AddStackClassesAll(candidates, classes) ==
    IF classes = <<>> THEN candidates
    ELSE AddStackClassesAll(
             Append(candidates, SimpleName(Head(classes)[Len(Head(classes))])),
             Tail(classes))

RECURSIVE AddStackClasses(_, _)
\* for st_class in stack_trace_classes: append its simple name if not in candidates
AddStackClasses(candidates, classes) ==
    IF classes = <<>> THEN candidates
    ELSE LET simple == SimpleName(Head(classes)[Len(Head(classes))])
         IN  AddStackClasses(
                 IF simple \in Range(candidates) THEN candidates
                 ELSE Append(candidates, simple),
                 Tail(classes))

\* seq[:n]
Take(q, n) == SubSeq(q, 1, IF Len(q) < n THEN Len(q) ELSE n)

\* _get_candidates_node: without an index the candidates start empty
GetCandidatesUpdate(st) ==
    LET candidates == AddStackClasses(<<>>, st.stack_trace_classes)
    IN  [candidate_names |-> Take(candidates, 100),
         agent_trace |-> <<TraceTag["get_candidates"]>>]

\* _compute_bm25_node: without an index bm25_scores stays {}
ComputeBm25Update(st) ==
    [bm25_scores |-> EmptyDict,
     agent_trace |-> <<TraceTag["compute_bm25"]>>]

\* PatternDetectionAgent.get_pattern_scores: _get_class_source returns None
\* without code structure, and analyze_class then leaves the score at 0.0
GetPatternScores(candidates, bug_type) == [c \in Range(candidates) |-> 0]

\* _detect_patterns_node written to keep only the candidates with a pattern
DetectPatternsUpdatePruning(st) ==
    LET scores == GetPatternScores(st.candidate_names, st.bug_type)
    IN  [pattern_scores |-> scores,
         candidate_names |-> SelectSeq(st.candidate_names, LAMBDA c : scores[c] > 0),
         agent_trace |-> <<TraceTag["detect_patterns"]>>]

\* _detect_patterns_node
DetectPatternsUpdate(st) ==
    [pattern_scores |-> GetPatternScores(st.candidate_names, st.bug_type),
     agent_trace |-> <<TraceTag["detect_patterns"]>>]

\* TestFailureAgent._extract_test_mentions
ExtractTestMentions(report) == report.tests

\* TestFailureAgent._calculate_coverage_score with empty _class_to_tests and
\* _co_occurrence: 0.3 when a test mention of the report holds the name
CalculateCoverageScore(class_name, candidates, test_mentions) ==
    IF \E t \in test_mentions : SimpleName(class_name) \in LowerNamesIn[t]
    THEN 3 ELSE 0

\* TestFailureAgent.get_test_scores
GetTestScores(candidates, report) ==
    [c \in Range(candidates) |->
        CalculateCoverageScore(c, candidates, ExtractTestMentions(report))]

\* _analyze_tests_node
AnalyzeTestsUpdate(st) ==
    [test_scores |-> GetTestScores(st.candidate_names, st.bug_report),
     agent_trace |-> <<TraceTag["analyze_tests"]>>]

\* the stack_trace_scores dict of _judge_fusion_node: 1.0 or 0.0 for every candidate
StackTraceScores(st) ==
    LET st_classes == {SimpleName(c[Len(c)]) : c \in Range(st.stack_trace_classes)}
    IN  [c \in Range(st.candidate_names) |->
            IF SimpleName(c) \in st_classes THEN SScale ELSE 0]

\* the weights the judge holds after the fusion node's first statement, with
\* set_weights left out
FusionWeightsStale(held, dynamic_weights) == held

\* self.judge_agent.set_weights(state["dynamic_weights"]), from weights held
FusionWeights(held, dynamic_weights) == NormalizeWeights(dynamic_weights)

\* the final_rankings entry built from judgment j
RankingEntry(j, st, stack_trace_scores) ==
    [rank |-> j.rank,
     class_name |-> j.class_name,
     score |-> j.final_score,
     consensus |-> j.consensus,
     explanation |-> j.explanation,
     stack_trace |-> Get(stack_trace_scores, j.class_name) > 0,
     bm25_score |-> Get(st.bm25_scores, j.class_name),
     pattern_score |-> Get(st.pattern_scores, j.class_name),
     test_score |-> Get(st.test_scores, j.class_name)]

\* _judge_fusion_node, run with the judge holding weights w
JudgeFusionUpdate(st, w) ==
    LET stack_trace_scores == StackTraceScores(st)
        judgment == Judge(st.candidate_names, stack_trace_scores, st.bm25_scores,
                          st.pattern_scores, st.test_scores, st.bug_type, w)
        top == Take(judgment.candidates, 20)
    IN  [stack_trace_scores |-> stack_trace_scores,
         final_rankings |-> [i \in 1..Len(top) |-> RankingEntry(top[i], st, stack_trace_scores)],
         consensus_rate |-> judgment.consensus_rate,
         agent_trace |-> <<TraceTag["judge_fusion"]>>]

\* what a node's return value does to the state: agent_trace is declared with
\* operator.add and is appended to, every other returned key is overwritten
Merge(st, upd) ==
    [k \in DOMAIN st |->
        IF k \notin DOMAIN upd THEN st[k]
        ELSE IF k = "agent_trace" THEN st[k] \o upd[k]
        ELSE upd[k]]

\* the dict localize returns, for top_k = 10
Result(st) ==
    [top_k |-> Take(st.final_rankings, 10),
     bug_type |-> st.bug_type,
     bug_confidence |-> st.bug_confidence,
     weights_used |-> st.dynamic_weights,
     consensus_rate |-> st.consensus_rate,
     agent_trace |-> st.agent_trace,
     total_candidates |-> Len(st.candidate_names)]

(***************************************************************************)
(* Two callers of one BugLocalizationGraph.  Each call is a run of the     *)
(* compiled graph over its own state dict; a step of the model is one      *)
(* node of one run, so the runs interleave between nodes.  The judge's     *)
(* weights are the one attribute of the orchestrator's agents that a node  *)
(* assigns.                                                                *)
(***************************************************************************)
IdleRun == [pc |-> "idle", state |-> None, result |-> None]

PipeInit ==
    /\ weights = InitWeights(None)
    /\ runs = [id \in Calls |-> IdleRun]
    /\ cands = <<>>
    /\ sts = EmptyDict
    /\ bms = EmptyDict
    /\ pts = EmptyDict
    /\ tes = EmptyDict
    /\ btype = "GENERIC"
    /\ lastCall = [op |-> "init", arg |-> None]
    /\ ret = [kind |-> "none"]
    /\ LocalizerUnused
    /\ RankerUnused

\* localize(bug_report) up to app.invoke: the run stands at the entry point
Localize(id, report) ==
    /\ runs[id].pc \in {"idle", "returned"}
    /\ runs' = [runs EXCEPT ![id] = [pc |-> EntryPoint,
                                      state |-> InitialState(report),
                                      result |-> None]]
    /\ UNCHANGED <<weights, cands, sts, bms, pts, tes, btype, lastCall, ret, localizerVars, rankerVars>>

\* node n is the one run id executes next
Runnable(id, n) == runs[id].pc = n

\* run id executes node n, which returns upd, and moves along n's edge
Step(id, n, upd) ==
    /\ Runnable(id, n)
    /\ runs' = [runs EXCEPT ![id].state = Merge(@, upd), ![id].pc = Edges[n]]

ExtractInfoNode(id) ==
    /\ Runnable(id, "extract_info")
    /\ Step(id, "extract_info", ExtractInfoUpdate(runs[id].state))
    /\ UNCHANGED <<weights, cands, sts, bms, pts, tes, btype, lastCall, ret, localizerVars, rankerVars>>

ClassifyBugNode(id) ==
    /\ Runnable(id, "classify_bug")
    /\ Step(id, "classify_bug", ClassifyBugUpdate(runs[id].state))
    /\ UNCHANGED <<weights, cands, sts, bms, pts, tes, btype, lastCall, ret, localizerVars, rankerVars>>

GetCandidatesNode(id) ==
    /\ Runnable(id, "get_candidates")
    /\ Step(id, "get_candidates", GetCandidatesUpdate(runs[id].state))
    /\ UNCHANGED <<weights, cands, sts, bms, pts, tes, btype, lastCall, ret, localizerVars, rankerVars>>

ComputeBm25Node(id) ==
    /\ Runnable(id, "compute_bm25")
    /\ Step(id, "compute_bm25", ComputeBm25Update(runs[id].state))
    /\ UNCHANGED <<weights, cands, sts, bms, pts, tes, btype, lastCall, ret, localizerVars, rankerVars>>

DetectPatternsNode(id) ==
    /\ Runnable(id, "detect_patterns")
    /\ Step(id, "detect_patterns", DetectPatternsUpdate(runs[id].state))
    /\ UNCHANGED <<weights, cands, sts, bms, pts, tes, btype, lastCall, ret, localizerVars, rankerVars>>

AnalyzeTestsNode(id) ==
    /\ Runnable(id, "analyze_tests")
    /\ Step(id, "analyze_tests", AnalyzeTestsUpdate(runs[id].state))
    /\ UNCHANGED <<weights, cands, sts, bms, pts, tes, btype, lastCall, ret, localizerVars, rankerVars>>

\* set_weights on the shared judge, then judge with the weights it holds
JudgeFusionNode(id) ==
    /\ Runnable(id, "judge_fusion")
    /\ LET w == FusionWeights(weights, runs[id].state.dynamic_weights)
       IN  /\ weights' = w
           /\ Step(id, "judge_fusion", JudgeFusionUpdate(runs[id].state, w))
    /\ UNCHANGED <<cands, sts, bms, pts, tes, btype, lastCall, ret, localizerVars, rankerVars>>

\* app.invoke returns the final state and localize builds its result
Return(id) ==
    /\ runs[id].pc = "END"
    /\ runs' = [runs EXCEPT ![id].pc = "returned", ![id].result = Result(runs[id].state)]
    /\ UNCHANGED <<weights, cands, sts, bms, pts, tes, btype, lastCall, ret, localizerVars, rankerVars>>

PipeNext ==
    \E id \in Calls :
        \/ \E report \in Reports : Localize(id, report)
        \/ ExtractInfoNode(id)
        \/ ClassifyBugNode(id)
        \/ GetCandidatesNode(id)
        \/ ComputeBm25Node(id)
        \/ DetectPatternsNode(id)
        \/ AnalyzeTestsNode(id)
        \/ JudgeFusionNode(id)
        \/ Return(id)

SpecPipe == PipeInit /\ [][PipeNext]_vars

(***************************************************************************)
(* BugLocalizer: extraction of bug information                             *)
(*                                                                         *)
(* A report is held by what _keyword_parse reads from its text.  A JSON    *)
(* value is [type, val] with type "dict", "list", "str" or "null"; the     *)
(* lists hold strings.  Lists the code builds with list(set(...)) have no  *)
(* defined order and are held as sets; the reports and responses are       *)
(* short enough that the [:20], [:15] and [:10] slices cut nothing.        *)
(***************************************************************************)
MAX_RETRIES == 3
INITIAL_BACKOFF == 10
GEMINI_DELAY == 1

\* the clock stops here
MaxClock == 33

ExtractionReports ==
    { [summary |-> "Weaver crashes on Foo in doWeave",
       error_type |-> "WeavingError",
       words |-> {"Weaver", "Foo"},
       class_words |-> {"Weaver"},
       method_words |-> {"doWeave"},
       frames |-> <<Frame("Foo")>>],
      [summary |-> "it fails",
       error_type |-> "Unknown",
       words |-> {},
       class_words |-> {},
       method_words |-> {},
       frames |-> <<>>] }

\* '.'.join(parts)
Dotted ==
    [c \in {<<"a", "b", "Foo">>, <<"a", "b", "Bar">>} |->
        IF c[3] = "Foo" THEN "a.b.Foo" ELSE "a.b.Bar"]

\* BugLocalizer._keyword_parse
KeywordParse(report) ==
    LET st == FrameClasses(report.frames)
    IN  [summary |-> report.summary,
         error_type |-> report.error_type,
         keywords |-> report.words,
         potential_classes |-> report.class_words \cup {c[Len(c)] : c \in Range(st)},
         potential_methods |-> report.method_words,
         stack_trace_classes |-> {Dotted[c] : c \in Range(st)}]

\* keyword_result['source'] = 'keyword'; return keyword_result
KeywordOnly(report) ==
    [kind |-> "result", source |-> "keyword", info |-> KeywordParse(report)]

JList(q) == [type |-> "list", val |-> q]

JStr(x) == [type |-> "str", val |-> x]

JNull == [type |-> "null"]

JDict(f) == [type |-> "dict", val |-> f]

\* the bodies of the texts the language model answers with
\* twenty class names in one answer of the external service
ManyClasses ==
    << "Weaver", "K01", "K02", "K03", "K04", "K05", "K06", "K07", "K08", "K09", "K10",
       "K11", "K12", "K13", "K14", "K15", "K16", "K17", "K18", "K19" >>

JsonBodies ==
    { JDict([summary |-> JStr("NPE in Baz"),
             error_type |-> JStr("NPE"),
             keywords |-> JList(<<"Foo", "Baz">>),
             potential_classes |-> JList(<<"Weaver", "Baz">>),
             potential_methods |-> JList(<<"doWeave">>),
             stack_trace_classes |-> JList(<<"a.b.Baz">>)]),
      JDict([potential_classes |-> JList(<<"Baz">>)]),
      JDict([potential_classes |-> JList(ManyClasses)]),
      JDict([potential_classes |-> JNull]),
      JDict(EmptyDict),
      JList(<<"Foo">>),
      JNull }

\* response texts: a JSON document, bare or inside a ``` fence, or other text
ResponseTexts ==
    {[fenced |-> FALSE, json |-> TRUE, body |-> b] : b \in JsonBodies}
        \cup {[fenced |-> TRUE, json |-> TRUE, body |-> JDict([potential_classes |-> JList(<<"Baz">>)])],
              [fenced |-> FALSE, json |-> FALSE, body |-> JNull]}

\* BugLocalizer._parse_json: json.loads of the text with its fence taken
\* off, None when that raises; JSON null loads as None
ParseJson(text) ==
    IF ~text.json \/ text.body = JNull THEN None ELSE text.body

\* the messages of the exceptions the external call raises
RateLimitMessage == "429 Resource has been exhausted (e.g. check quota)."

NotFoundMessage ==
    "404 models/gemini-1.5-flash is not found for API version v1beta, or is not supported for generateContent."

ErrorMessages ==
    {RateLimitMessage, NotFoundMessage,
     "503 The service is currently unavailable.", "504 Deadline Exceeded"}

\* which of "429" in err, "quota" in err.lower(), "rate" in err.lower() hold
\* ("generatecontent" holds "rate")
MessageHas ==
    [m \in ErrorMessages |->
        CASE m = RateLimitMessage -> {"429", "quota"}
          [] m = NotFoundMessage -> {"rate"}
          [] OTHER -> {}]

\* the test _llm_extract makes on str(e)
IsRateLimitError(err) == MessageHas[err] /= {}

\* what an external call ends in
Outcomes ==
    {[kind |-> "error", message |-> m] : m \in ErrorMessages}
        \cup {[kind |-> "text", text |-> t] : t \in ResponseTexts}

\* not llm_result
Falsy(v) ==
    \/ v = None
    \/ v.type = "null"
    \/ v.type = "list" /\ v.val = <<>>
    \/ v.type = "dict" /\ DOMAIN v.val = {}

Raised(exc) == [kind |-> "raised", exception |-> exc]

\* llm_result.get(k, []) for the dict llm_result
LlmGet(llm, k) == IF k \in DOMAIN llm.val THEN llm.val[k] ELSE JList(<<>>)

\* llm_result.get(k) or fallback
LlmGetOr(llm, k, fallback) ==
    IF k \in DOMAIN llm.val /\ llm.val[k].type = "str" /\ llm.val[k].val /= ""
    THEN llm.val[k].val ELSE fallback

\* the four lists _merge_results reads from llm_result
MergedLists == {"potential_classes", "potential_methods", "keywords", "stack_trace_classes"}

RECURSIVE Cuts(_, _)
\* list(s)[:n] for a set s: the n elements kept are those the hash order of
\* the strings puts first, any n of them
Cuts(S, n) ==
    IF Cardinality(S) <= n THEN {S} ELSE UNION {Cuts(S \ {x}, n) : x \in S}

\* BugLocalizer._merge_results followed by merged['source'] = 'hybrid': the
\* values it can return, or what it raises; the .get of a value that is no
\* dict raises AttributeError, set(None) and list + None raise TypeError
MergeResults(kw, llm) ==
    IF llm.type /= "dict" THEN {Raised("AttributeError")}
    ELSE IF \E k \in MergedLists : LlmGet(llm, k).type /= "list" THEN {Raised("TypeError")}
    ELSE LET llm_classes == Range(LlmGet(llm, "potential_classes").val)
             llm_methods == Range(LlmGet(llm, "potential_methods").val)
             llm_keywords == Range(LlmGet(llm, "keywords").val)
         IN  { [kind |-> "result",
                source |-> "hybrid",
                info |->
                   [summary |-> LlmGetOr(llm, "summary", kw.summary),
                    error_type |-> LlmGetOr(llm, "error_type", kw.error_type),
                    keywords |-> all_keywords,
                    potential_classes |-> all_classes,
                    potential_methods |-> all_methods,
                    stack_trace_classes |->
                        kw.stack_trace_classes
                            \cup Range(LlmGet(llm, "stack_trace_classes").val),
                    both_classes |-> kw.potential_classes \cap llm_classes,
                    both_methods |-> kw.potential_methods \cap llm_methods]] :
                 all_keywords \in Cuts(kw.keywords \cup llm_keywords, 20),
                 all_classes \in Cuts(kw.potential_classes \cup llm_classes, 20),
                 all_methods \in Cuts(kw.potential_methods \cup llm_methods, 15) }

\* extract_bug_information from the return of _llm_extract on: the values
\* it can return, or what it raises
FinishExtraction(report, llm_result) ==
    IF Falsy(llm_result) THEN {KeywordOnly(report)}
    ELSE MergeResults(KeywordParse(report), llm_result)

\* the providers BugLocalizer.__init__ ends up with
Providers == {"keyword", "lmstudio", "gemini"}

\* BugLocalizer.__init__ for each provider it can settle on
NewLocalizer(provider, driver) ==
    [use_llm |-> provider /= "keyword",
     llm_provider |-> IF provider = "keyword" THEN None ELSE JStr(provider),
     model |-> IF provider = "gemini" THEN JStr("gemini-1.5-flash") ELSE None,
     last_api_call |-> 0,
     index_built |-> FALSE,
     driver |-> driver]

IdleCall == [op |-> "none", pc |-> "idle"]

\* if self.use_llm, with the test read off self.model
UsesLlmByModel(loc) == loc.model /= None

\* the test extract_bug_information makes before it calls _llm_extract
UsesLlm(loc) == loc.use_llm

\* extract_bug_information up to the first external call
ExtractBugInformation(report) ==
    /\ localizer /= None
    /\ ext.pc \in {"idle", "returned"}
    /\ LET call == [op |-> "extract", report |-> report, attempt |-> 0, calls |-> <<>>]
       IN  IF ~UsesLlm(localizer)
           THEN ext' = call @@ [pc |-> "returned", result |-> KeywordOnly(report)]
           ELSE IF localizer.llm_provider = JStr("lmstudio")
           THEN ext' = call @@ [pc |-> "call_lmstudio"]
           ELSE IF localizer.llm_provider = JStr("gemini") /\ localizer.model /= None
           THEN ext' = call @@ [pc |-> "rate_limit"]
           ELSE \E result \in FinishExtraction(report, None) :
                    ext' = call @@ [pc |-> "returned", result |-> result]
    /\ UNCHANGED <<localizer, now, judgeVars, runs, rankerVars>>

\* _call_lmstudio returns or raises; either way the extraction returns
CallLmstudio(outcome) ==
    /\ ext.pc = "call_lmstudio"
    /\ LET llm_result == IF outcome.kind = "text" THEN ParseJson(outcome.text) ELSE None
       IN  \E result \in FinishExtraction(ext.report, llm_result) :
               ext' = [op |-> "extract", report |-> ext.report, attempt |-> ext.attempt,
                       calls |-> Append(ext.calls, [at |-> now, outcome |-> outcome]),
                       pc |-> "returned",
                       result |-> result]
    /\ UNCHANGED <<localizer, now, judgeVars, runs, rankerVars>>

\* BugLocalizer._rate_limit: sleep until GEMINI_DELAY after the last call
RateLimit ==
    /\ ext.pc = "rate_limit"
    /\ LET elapsed == now - localizer.last_api_call
           after == IF elapsed < GEMINI_DELAY THEN now + (GEMINI_DELAY - elapsed) ELSE now
       IN  /\ after <= MaxClock
           /\ now' = after
           /\ localizer' = [localizer EXCEPT !.last_api_call = after]
    /\ ext' = [ext EXCEPT !.pc = "generate"]
    /\ UNCHANGED <<judgeVars, runs, rankerVars>>

\* attempt < MAX_RETRIES - 1
RetryLeft(attempt) == attempt < MAX_RETRIES - 1

\* self.model.generate_content(prompt) returns or raises, and the loop body
\* of _llm_extract runs to its return or to its time.sleep
GenerateContent(outcome) ==
    /\ ext.pc = "generate"
    /\ LET logged == [ext EXCEPT !.calls = Append(@, [at |-> now, outcome |-> outcome])]
           return(llm_result) ==
               \E result \in FinishExtraction(ext.report, llm_result) :
                   ext' = [logged @@ [result |-> result] EXCEPT !.pc = "returned"]
       IN  IF outcome.kind = "text"
           THEN /\ return(ParseJson(outcome.text))
                /\ UNCHANGED localizer
           ELSE IF IsRateLimitError(outcome.message) /\ RetryLeft(ext.attempt)
           THEN /\ ext' = [logged EXCEPT !.pc = "backoff"]
                /\ UNCHANGED localizer
           ELSE /\ return(None)
                /\ localizer' = [localizer EXCEPT
                                   !.use_llm = IF IsRateLimitError(outcome.message)
                                               THEN FALSE ELSE @]
    /\ UNCHANGED <<now, judgeVars, runs, rankerVars>>

\* time.sleep(INITIAL_BACKOFF * (2 ** attempt)); continue
Backoff ==
    /\ ext.pc = "backoff"
    /\ now + INITIAL_BACKOFF * (2 ^ ext.attempt) <= MaxClock
    /\ now' = now + INITIAL_BACKOFF * (2 ^ ext.attempt)
    /\ ext' = [ext EXCEPT !.attempt = @ + 1, !.pc = "rate_limit"]
    /\ UNCHANGED <<localizer, judgeVars, runs, rankerVars>>

\* a second passes, between two calls or while the external service works
Tick ==
    /\ now < MaxClock
    /\ ext.pc \in {"idle", "returned", "generate", "call_lmstudio"}
    /\ now' = now + 1
    /\ UNCHANGED <<localizer, ext, judgeVars, runs, rankerVars>>

\* a BugLocalizer built for any provider; time.time() is far beyond
\* last_api_call = 0
ExtractInit ==
    /\ \E provider \in Providers : localizer = NewLocalizer(provider, None)
    /\ ext = IdleCall
    /\ now = GEMINI_DELAY
    /\ weights = InitWeights(None)
    /\ cands = <<>>
    /\ sts = EmptyDict
    /\ bms = EmptyDict
    /\ pts = EmptyDict
    /\ tes = EmptyDict
    /\ btype = "GENERIC"
    /\ lastCall = [op |-> "init", arg |-> None]
    /\ ret = [kind |-> "none"]
    /\ runs = NoRuns
    /\ RankerUnused

ExtractNext ==
    \/ \E report \in ExtractionReports : ExtractBugInformation(report)
    \/ \E outcome \in Outcomes : CallLmstudio(outcome)
    \/ RateLimit
    \/ \E outcome \in Outcomes : GenerateContent(outcome)
    \/ Backoff
    \/ Tick

SpecExtract == ExtractInit /\ [][ExtractNext]_vars

(***************************************************************************)
(* BM25Ranker.  A text is held as the sequence of its words; a score is    *)
(* an integer count of millionths, the product of the idf in thousandths   *)
(* and the term factor in thousandths, each rounded down.                  *)
(***************************************************************************)
\* the most classes the graph returns to build_bm25_index
MaxDocs == 3

\* the classes of the knowledge graph: c.name, c.full_name, collect(m.name)
GraphClasses ==
    { [class_name |-> "Foo",    full_name |-> "a.Foo",    methods |-> <<"run">>],
      [class_name |-> "Foo",    full_name |-> "b.Foo",    methods |-> <<"run">>],
      [class_name |-> "FooBar", full_name |-> "a.FooBar", methods |-> <<>>],
      [class_name |-> "A",      full_name |-> "A",        methods |-> <<>>] }

\* _tokenize of one word: split at camelCase and '_' and at non-word
\* characters, lower-cased, pieces shorter than 2 characters dropped
TokenTable ==
    [ Foo |-> <<"foo">>, FooBar |-> <<"foo", "bar">>, Bar |-> <<"bar">>,
      A |-> <<>>, run |-> <<"run">>, doRun |-> <<"do", "run">>,
      zip |-> <<"zip">>, fails |-> <<"fails">>, in |-> <<"in">>,
      BarTest |-> <<"bar", "test">> ]
    @@ ("a.Foo" :> <<"foo">>) @@ ("b.Foo" :> <<"foo">>)
    @@ ("a.FooBar" :> <<"foo", "bar">>)

RECURSIVE Tokenize(_)
\* _tokenize of a text of several words
Tokenize(words) ==
    IF words = <<>> THEN <<>> ELSE TokenTable[Head(words)] \o Tokenize(Tail(words))

\* the document build_bm25_index makes of a class, keyed by full_name
Document(c) ==
    [ id |-> c.full_name,
      text |-> <<c.class_name, c.full_name>> \o c.methods,
      class_name |-> c.class_name,
      methods |-> c.methods ]

\* Counter(terms)
Counter(terms) ==
    [t \in {terms[i] : i \in 1..Len(terms)} |->
        Cardinality({i \in 1..Len(terms) : terms[i] = t})]

\* BM25Ranker.__init__
NewRanker ==
    [ N |-> 0, avgdl |-> <<0, 1>>,
      doc_freqs |-> EmptyDict, doc_lens |-> EmptyDict,
      doc_terms |-> EmptyDict, doc_metadata |-> EmptyDict,
      doc_ids |-> <<>> ]

\* BM25Ranker.fit: N and avgdl are set from these documents, the four
\* dictionaries are added to; doc_ids is the key order of doc_terms
Fit(r, documents) ==
    LET n == Len(documents)
        idx == 1..n
        ids == {documents[i].id : i \in idx}
        terms(i) == Tokenize(documents[i].text)
        of(id) == CHOOSE i \in idx : documents[i].id = id
        total_len == SumSeq([i \in idx |-> Len(terms(i))])
        new_terms == UNION {DOMAIN Counter(terms(i)) : i \in idx}
        added == Cardinality({i \in idx : documents[i].id \notin DOMAIN r.doc_terms})
        fresh == [k \in 1..n |-> documents[k].id \notin DOMAIN r.doc_terms]
        RECURSIVE Appended(_)
        Appended(k) == IF k = 0 THEN r.doc_ids
                       ELSE IF fresh[k] THEN Appended(k - 1) \o <<documents[k].id>>
                       ELSE Appended(k - 1)
    IN  [ N |-> n,
          avgdl |-> IF n > 0 THEN <<total_len, n>> ELSE <<0, 1>>,
          doc_terms |-> [id \in DOMAIN r.doc_terms \cup ids |->
                            IF id \in ids THEN Counter(terms(of(id))) ELSE r.doc_terms[id]],
          doc_lens |-> [id \in DOMAIN r.doc_lens \cup ids |->
                            IF id \in ids THEN Len(terms(of(id))) ELSE r.doc_lens[id]],
          doc_metadata |-> [id \in DOMAIN r.doc_metadata \cup ids |->
                            IF id \in ids
                            THEN [class_name |-> documents[of(id)].class_name,
                                  methods |-> documents[of(id)].methods]
                            ELSE r.doc_metadata[id]],
          doc_freqs |-> [t \in DOMAIN r.doc_freqs \cup new_terms |->
                            (IF t \in DOMAIN r.doc_freqs THEN r.doc_freqs[t] ELSE 0)
                            + Cardinality({i \in idx : t \in DOMAIN Counter(terms(i))})],
          doc_ids |-> Appended(n) ]

\* math.log((N - df + 0.5) / (df + 0.5) + 1) in thousandths, rounded down,
\* at row N and column df
LogTable ==
    << <<287>>,
       <<693, 182>>,
       <<980, 470, 133>>,
       <<1203, 693, 356, 105>>,
       <<1386, 875, 538, 287, 87>>,
       <<1540, 1029, 693, 441, 241, 74>> >>

\* BM25Ranker._idf, in thousandths
Idf(r, term) ==
    LET df == IF term \in DOMAIN r.doc_freqs THEN r.doc_freqs[term] ELSE 0
    IN  IF df = 0 THEN 0 ELSE LogTable[r.N][df]

\* the lookup as self.doc_terms.setdefault(doc_id, {})
DocTermFreqsSetdefault(r, doc_id) ==
    [ freqs |-> IF doc_id \in DOMAIN r.doc_terms THEN r.doc_terms[doc_id] ELSE EmptyDict,
      ranker |-> IF doc_id \in DOMAIN r.doc_terms THEN r
                 ELSE [r EXCEPT !.doc_terms = r.doc_terms @@ (doc_id :> EmptyDict),
                                !.doc_ids = r.doc_ids \o <<doc_id>>] ]

\* self.doc_terms.get(doc_id, {}): the frequencies looked up and the ranker
\* after the lookup
DocTermFreqs(r, doc_id) ==
    [ freqs |-> IF doc_id \in DOMAIN r.doc_terms THEN r.doc_terms[doc_id] ELSE EmptyDict,
      ranker |-> r ]

\* tf * (k1 + 1) / (tf + k1 * (1 - b + b * doc_len / avgdl)) in thousandths
\* with k1 = 1.2 and b = 0.75, for avgdl = total / n
TermFactor(tf, doc_len, total, n) ==
    (22000 * tf * total) \div (10 * tf * total + 3 * total + 9 * doc_len * n)

RECURSIVE SumTerms(_, _, _, _)
\* the loop of score over the query terms, in millionths
SumTerms(r, query_terms, freqs, doc_len) ==
    IF query_terms = <<>> THEN [kind |-> "value", score |-> 0]
    ELSE LET term == Head(query_terms)
             rest == SumTerms(r, Tail(query_terms), freqs, doc_len)
         IN  IF term \notin DOMAIN freqs THEN rest
             ELSE IF r.avgdl[1] = 0 THEN Raised("ZeroDivisionError")
             ELSE IF rest.kind = "raised" THEN rest
             ELSE [kind |-> "value",
                   score |-> rest.score
                       + Idf(r, term) * TermFactor(freqs[term], doc_len, r.avgdl[1], r.avgdl[2])]

\* score with doc_len / self.avgdl computed once before the loop
ScoreNormFirst(r, query, doc_id) ==
    LET freqs == DocTermFreqs(r, doc_id).freqs
        doc_len == IF doc_id \in DOMAIN r.doc_lens THEN r.doc_lens[doc_id] ELSE 0
    IN  IF r.avgdl[1] = 0 THEN Raised("ZeroDivisionError")
        ELSE IF doc_len = 0 THEN [kind |-> "value", score |-> 0]
        ELSE SumTerms(r, Tokenize(query), freqs, doc_len)

\* BM25Ranker.score
Score(r, query, doc_id) ==
    LET freqs == DocTermFreqs(r, doc_id).freqs
        doc_len == IF doc_id \in DOMAIN r.doc_lens THEN r.doc_lens[doc_id] ELSE 0
    IN  IF doc_len = 0 THEN [kind |-> "value", score |-> 0]
        ELSE SumTerms(r, Tokenize(query), freqs, doc_len)

\* where scores.sort(key=lambda x: -x[1]) puts one more (doc_id, s)
InsertByScore(sorted, e) ==
    LET k == Cardinality({i \in 1..Len(sorted) : sorted[i].score >= e.score})
    IN  SubSeq(sorted, 1, k) \o <<e>> \o SubSeq(sorted, k + 1, Len(sorted))

RECURSIVE SortByScore(_)
\* scores.sort(key=lambda x: -x[1]): stable, equal scores keep their order
SortByScore(scores) ==
    IF scores = <<>> THEN <<>>
    ELSE InsertByScore(SortByScore(SubSeq(scores, 1, Len(scores) - 1)), scores[Len(scores)])

\* one pass of the loop of rank: the scores list after doc_id
Scored(r, acc, query, doc_id) ==
    LET s == Score(r, query, doc_id)
    IN  IF acc.kind = "raised" THEN acc
        ELSE IF s.kind = "raised" THEN s
        ELSE IF s.score > 0
        THEN [acc EXCEPT !.scores = @ \o <<[doc_id |-> doc_id, score |-> s.score]>>]
        ELSE acc

RECURSIVE ScoresUpTo(_, _, _)
\* the scores list of rank after the first k documents of doc_terms
ScoresUpTo(r, query, k) ==
    IF k = 0 THEN [kind |-> "value", scores |-> <<>>]
    ELSE Scored(r, ScoresUpTo(r, query, k - 1), query, r.doc_ids[k])

\* the sort and the slice that end rank
Ranked(acc, top_k) ==
    IF acc.kind = "raised" THEN acc
    ELSE [kind |-> "value", result |-> Take(SortByScore(acc.scores), top_k)]

\* BM25Ranker.rank
Rank(r, query, top_k) == Ranked(ScoresUpTo(r, query, Len(r.doc_ids)), top_k)

(***************************************************************************)
(* One BM25Ranker: fit called once, as build_bm25_index does, then score   *)
(* and rank called by concurrent callers.  rank takes one step for each    *)
(* document it scores and one for its sort and slice.                      *)
(***************************************************************************)
Callers == {"q1", "q2"}

\* the records the graph query of build_bm25_index can return, in the order
\* returned
ClassLists ==
    LET lists == UNION {[1..n -> GraphClasses] : n \in 0..MaxDocs}
    IN  {l \in lists : \A i, j \in DOMAIN l : l[i] = l[j] => i = j}

\* the documents build_bm25_index collects from the records
Documents(records) == [i \in DOMAIN records |-> Document(records[i])]

Corpora == {Documents(l) : l \in ClassLists}

QueryTexts == { <<"Foo">>, <<"doRun", "Bar">>, <<"zip">> }

DocIds == {c.full_name : c \in GraphClasses} \cup {"c.Zip"}

TopKs == {1, 2}

IdleQuery == [op |-> "none", pc |-> "idle"]

RankInit ==
    /\ bm25 = NewRanker
    /\ queries = [c \in Callers |-> IdleQuery]
    /\ lastCall = [op |-> "init"]
    /\ ret = [kind |-> "none"]
    /\ weights = InitWeights(None)
    /\ cands = <<>>
    /\ sts = EmptyDict
    /\ bms = EmptyDict
    /\ pts = EmptyDict
    /\ tes = EmptyDict
    /\ btype = "GENERIC"
    /\ runs = NoRuns
    /\ LocalizerUnused

\* bm25.fit(documents)
FitCall(documents) ==
    /\ lastCall.op = "init"
    /\ bm25' = Fit(bm25, documents)
    /\ lastCall' = [op |-> "fit", arg |-> documents]
    /\ UNCHANGED <<weights, cands, sts, bms, pts, tes, btype, ret, runs, localizerVars, queries>>

Callable(c) == lastCall.op = "fit" /\ queries[c].pc \in {"idle", "returned"}

\* bm25.score(query, doc_id) by caller c
ScoreCall(c, query, doc_id) ==
    /\ Callable(c)
    /\ bm25' = DocTermFreqs(bm25, doc_id).ranker
    /\ queries' = [queries EXCEPT ![c] =
                      [op |-> "score", pc |-> "returned", query |-> query,
                       doc_id |-> doc_id, result |-> Score(bm25, query, doc_id)]]
    /\ UNCHANGED <<judgeVars, runs, localizerVars>>

\* caller c enters bm25.rank(query, top_k)
RankBegin(c, query, top_k) ==
    /\ Callable(c)
    /\ queries' = [queries EXCEPT ![c] =
                      [op |-> "rank", pc |-> "scoring", query |-> query, top_k |-> top_k,
                       k |-> 0, acc |-> ScoresUpTo(bm25, query, 0)]]
    /\ UNCHANGED <<judgeVars, runs, localizerVars, bm25>>

\* one pass of the loop of rank over self.doc_terms
RankStep(c) ==
    LET q == queries[c]
    IN  /\ q.pc = "scoring"
        /\ q.k < Len(bm25.doc_ids)
        /\ LET doc_id == bm25.doc_ids[q.k + 1]
               acc == Scored(bm25, q.acc, q.query, doc_id)
           IN  /\ bm25' = DocTermFreqs(bm25, doc_id).ranker
               /\ queries' = [queries EXCEPT ![c] =
                     IF acc.kind = "raised"
                     THEN [op |-> "rank", pc |-> "returned", query |-> q.query,
                           top_k |-> q.top_k, result |-> acc]
                     ELSE [q EXCEPT !.k = q.k + 1, !.acc = acc]]
        /\ UNCHANGED <<judgeVars, runs, localizerVars>>

\* the sort, the slice and the return of rank
RankReturn(c) ==
    LET q == queries[c]
    IN  /\ q.pc = "scoring"
        /\ q.k >= Len(bm25.doc_ids)
        /\ queries' = [queries EXCEPT ![c] =
                          [op |-> "rank", pc |-> "returned", query |-> q.query,
                           top_k |-> q.top_k, result |-> Ranked(q.acc, q.top_k)]]
        /\ UNCHANGED <<judgeVars, runs, localizerVars, bm25>>

RankNext ==
    \/ \E documents \in Corpora : FitCall(documents)
    \/ \E c \in Callers, query \in QueryTexts, doc_id \in DocIds : ScoreCall(c, query, doc_id)
    \/ \E c \in Callers, query \in QueryTexts, top_k \in TopKs : RankBegin(c, query, top_k)
    \/ \E c \in Callers : RankStep(c)
    \/ \E c \in Callers : RankReturn(c)

SpecRank == RankInit /\ [][RankNext]_vars

(***************************************************************************)
(* BM25Ranker.fit called more than once on one ranker.  BugLocalizer fits  *)
(* its ranker once (build_bm25_index returns early when _index_built),     *)
(* the class itself puts no condition on fit.                              *)
(***************************************************************************)
\* the most calls of fit on one ranker
MaxFits == 2

\* whether the argument of the logarithm of _idf,
\* (N - df + 0.5) / (df + 0.5) + 1 = (2N + 2) / (2df + 1), is above 1,
\* below 1 or 1: the sign of the IDF of a term with df > 0
IdfSign(r, term) ==
    LET df == IF term \in DOMAIN r.doc_freqs THEN r.doc_freqs[term] ELSE 0
    IN  IF df = 0 THEN 0
        ELSE IF 2 * r.N + 2 > 2 * df + 1 THEN 1
        ELSE IF 2 * r.N + 2 < 2 * df + 1 THEN -1
        ELSE 0

FitInit ==
    /\ bm25 = NewRanker
    /\ queries = [c \in Callers |-> IdleQuery]
    /\ lastCall = [op |-> "init", arg |-> <<>>, fits |-> 0]
    /\ ret = [kind |-> "none"]
    /\ weights = InitWeights(None)
    /\ cands = <<>>
    /\ sts = EmptyDict
    /\ bms = EmptyDict
    /\ pts = EmptyDict
    /\ tes = EmptyDict
    /\ btype = "GENERIC"
    /\ runs = NoRuns
    /\ LocalizerUnused

\* bm25.fit(documents), the first call or a later one
FitAgain(documents) ==
    /\ lastCall.fits < MaxFits
    /\ bm25' = Fit(bm25, documents)
    /\ lastCall' = [op |-> "fit", arg |-> documents, fits |-> lastCall.fits + 1]
    /\ UNCHANGED <<weights, cands, sts, bms, pts, tes, btype, ret, runs, localizerVars, queries>>

FitNext == \E documents \in Corpora : FitAgain(documents)

SpecFit == FitInit /\ [][FitNext]_vars

(***************************************************************************)
(* BugLocalizer.identify_buggy_locations on a localizer constructed with   *)
(* llm_provider "keyword", use_agents False and use_langgraph False: the   *)
(* index is built on the first call, the candidates come from rank and     *)
(* from the stack trace, and the original weighted sum scores them.  The   *)
(* driver of the knowledge graph is None or a connection to a store that  *)
(* holds a list of classes; a lookup through a connection can fail.        *)
(***************************************************************************)
\* W_BM25, W_STACK_TRACE, W_SEMANTIC, in tenths
W_BM25 == 4

W_STACK_TRACE == 3

W_SEMANTIC == 2

\* top_k of the rank call in identify_buggy_locations
RankTopK == 100

LocateReports ==
    { [summary |-> "Foo fails in run",
       error_type |-> "Unknown",
       words |-> {"Foo"},
       class_words |-> {},
       method_words |-> {},
       frames |-> <<Frame("Foo")>>],
      [summary |-> "zip",
       error_type |-> "Unknown",
       words |-> {},
       class_words |-> {},
       method_words |-> {},
       frames |-> <<>>] }

\* str.split of a summary
SummaryWords ==
    ("Foo fails in run" :> <<"Foo", "fails", "in", "run">>) @@ ("zip" :> <<"zip">>)

\* st.split('.')[-1]
LastPart == ("a.b.Foo" :> "Foo") @@ ("a.b.Bar" :> "Bar")

\* c.name CONTAINS $class_name
NameContains(name, class_name) ==
    \/ name = class_name
    \/ name = "FooBar" /\ class_name \in {"Foo", "Bar"}

RECURSIVE SeqOf(_)
\* a list that holds the elements of a set, as ' '.join takes it
SeqOf(S) == IF S = {} THEN <<>> ELSE LET x == CHOOSE x \in S : TRUE IN <<x>> \o SeqOf(S \ {x})

Connection(records) == [classes |-> records]

\* the classes a store can hold: those above and a class Foo of the default
\* package, whose full name is its simple name
StoreClasses ==
    GraphClasses \cup {[class_name |-> "Foo", full_name |-> "Foo", methods |-> <<>>]}

StoreLists ==
    LET lists == UNION {[1..n -> StoreClasses] : n \in 0..MaxDocs}
    IN  {l \in lists : \A i, j \in DOMAIN l : l[i] = l[j] => i = j}

Drivers == {None} \cup {Connection(l) : l \in StoreLists}

ServiceUnavailable == Raised("ServiceUnavailable")

\* Neo4jKnowledgeGraph.query_classes_by_name: the full names found
QueryClassesByName(driver, class_name, answers) ==
    IF driver = None THEN [kind |-> "value", names |-> <<>>]
    ELSE IF ~answers THEN ServiceUnavailable
    ELSE [kind |-> "value",
          names |-> LET hit == [i \in DOMAIN driver.classes |->
                                   NameContains(driver.classes[i].class_name, class_name)]
                        RECURSIVE Found(_)
                        Found(k) == IF k = 0 THEN <<>>
                                    ELSE IF hit[k]
                                    THEN Found(k - 1) \o <<driver.classes[k].full_name>>
                                    ELSE Found(k - 1)
                    IN  Found(Len(driver.classes))]

\* BugLocalizer.build_bm25_index: the ranker after it, or what it raises
BuildBm25Index(loc, r, answers) ==
    IF loc.index_built THEN [kind |-> "value", ranker |-> r, index_built |-> TRUE]
    ELSE IF loc.driver = None THEN Raised("AttributeError")
    ELSE IF ~answers THEN ServiceUnavailable
    ELSE [kind |-> "value", ranker |-> Fit(r, Documents(loc.driver.classes)),
          index_built |-> TRUE]

RECURSIVE AddFound(_, _)
\* the candidate names after the full names found for one stack trace class
AddFound(names, found) ==
    IF found = <<>> THEN names
    ELSE AddFound(IF Head(found) \in Range(names) THEN names ELSE names \o <<Head(found)>>,
                  Tail(found))

RECURSIVE AddStackTraceClasses(_, _, _, _)
\* the loop "Also add stack trace classes not in BM25 results"
AddStackTraceClasses(names, driver, classes, answers) ==
    IF classes = <<>> THEN [kind |-> "value", names |-> names]
    ELSE LET found == QueryClassesByName(driver, Head(classes), answers)
         IN  IF found.kind = "raised" THEN found
             ELSE AddStackTraceClasses(AddFound(names, found.names), driver,
                                       Tail(classes), answers)

\* where results.sort(key=lambda x: x['score'], reverse=True) puts one more
InsertResult(sorted, e) ==
    LET k == Cardinality({i \in 1..Len(sorted) : sorted[i].score >= e.score})
    IN  SubSeq(sorted, 1, k) \o <<e>> \o SubSeq(sorted, k + 1, Len(sorted))

RECURSIVE SortResults(_)
SortResults(results) ==
    IF results = <<>> THEN <<>>
    ELSE InsertResult(SortResults(SubSeq(results, 1, Len(results) - 1)),
                      results[Len(results)])

\* identify_buggy_locations after build_bm25_index, on the ranker r: the
\* score of a result is in units of 1 / (10 * max_bm25)
Locate(loc, r, report, num_top_locations, answers) ==
    LET info == KeywordOnly(report).info
        stack_trace_classes == {LastPart[st] : st \in info.stack_trace_classes}
        llm_classes == info.potential_classes
        query == SummaryWords[info.summary] \o SeqOf(info.keywords)
                     \o SeqOf(info.potential_classes)
        bm25_results == Rank(r, query, RankTopK)
    IN  IF bm25_results.kind = "raised" THEN bm25_results
        ELSE
        LET res == bm25_results.result
            max_bm25 == IF res = <<>> THEN 1 ELSE res[1].score
            ranked == [i \in 1..Len(res) |-> res[i].doc_id]
            class_name(doc_id) == IF doc_id \in DOMAIN r.doc_metadata
                                  THEN r.doc_metadata[doc_id].class_name ELSE doc_id
            bm25_score(doc_id) ==
                LET at == {i \in 1..Len(res) : res[i].doc_id = doc_id}
                IN  IF at = {} THEN 0 ELSE res[CHOOSE i \in at : TRUE].score
            in_stack(doc_id) ==
                \/ doc_id \in Range(ranked) /\ class_name(doc_id) \in stack_trace_classes
                \/ doc_id \notin Range(ranked)
            all == AddStackTraceClasses(ranked, loc.driver, SeqOf(stack_trace_classes), answers)
        IN  IF all.kind = "raised" THEN all
            ELSE
            LET results == [i \in 1..Len(all.names) |->
                    LET doc_id == all.names[i]
                    IN  [name |-> doc_id,
                         score |-> W_BM25 * bm25_score(doc_id)
                                   + (IF in_stack(doc_id) THEN W_STACK_TRACE * max_bm25 ELSE 0)
                                   + (IF class_name(doc_id) \in llm_classes
                                      THEN W_SEMANTIC * max_bm25 ELSE 0),
                         max_bm25 |-> max_bm25,
                         bm25_score |-> bm25_score(doc_id),
                         stack_trace |-> in_stack(doc_id)]]
            IN  [kind |-> "value", results |-> Take(SortResults(results), num_top_locations)]

TopLocations == {1, 10}

\* the candidates of _get_candidates_node, before the cut to 100, on the
\* orchestrator _init_langgraph makes with bm25_ranker=self.bm25
GetCandidatesIndexed(r, st) ==
    LET query == SeqOf(st.keywords) \o SeqOf(st.potential_classes)
        bm25_results == Rank(r, query, RankTopK)
    IN  IF bm25_results.kind = "raised" THEN bm25_results
        ELSE [kind |-> "value",
              names |-> AddStackClasses(
                            [i \in 1..Len(bm25_results.result) |->
                                bm25_results.result[i].doc_id],
                            st.stack_trace_classes)]

LocateInit ==
    /\ \E driver \in Drivers : localizer = NewLocalizer("keyword", driver)
    /\ bm25 = NewRanker
    /\ queries = NoRuns
    /\ ext = IdleCall
    /\ now = 0
    /\ weights = InitWeights(None)
    /\ cands = <<>>
    /\ sts = EmptyDict
    /\ bms = EmptyDict
    /\ pts = EmptyDict
    /\ tes = EmptyDict
    /\ btype = "GENERIC"
    /\ lastCall = [op |-> "init"]
    /\ ret = [kind |-> "none"]
    /\ runs = NoRuns

\* localizer.build_bm25_index() called on its own, as main does
BuildBm25IndexCall(answers) ==
    LET built == BuildBm25Index(localizer, bm25, answers)
    IN  /\ lastCall' = [op |-> "build_bm25_index", answers |-> answers]
        /\ ret' = IF built.kind = "raised" THEN built ELSE [kind |-> "none"]
        /\ bm25' = IF built.kind = "raised" THEN bm25 ELSE built.ranker
        /\ localizer' = IF built.kind = "raised" THEN localizer
                        ELSE [localizer EXCEPT !.index_built = built.index_built]
        /\ UNCHANGED <<weights, cands, sts, bms, pts, tes, btype, runs, ext, now, queries>>

\* localizer.identify_buggy_locations(bug_report, num_top_locations): the
\* store answers the query of build_bm25_index or not, and the lookups by
\* class name or not
IdentifyBuggyLocations(report, num_top_locations, build_answers, lookup_answers) ==
    LET built == BuildBm25Index(localizer, bm25, build_answers)
    IN  /\ lastCall' = [op |-> "identify_buggy_locations", arg |-> report,
                        num_top_locations |-> num_top_locations,
                        answers |-> build_answers /\ lookup_answers]
        /\ IF built.kind = "raised"
           THEN /\ ret' = built
                /\ UNCHANGED <<bm25, localizer>>
           ELSE /\ bm25' = built.ranker
                /\ localizer' = [localizer EXCEPT !.index_built = built.index_built]
                /\ ret' = Locate(localizer, built.ranker, report, num_top_locations,
                                 lookup_answers)
        /\ UNCHANGED <<weights, cands, sts, bms, pts, tes, btype, runs, ext, now, queries>>

\* _get_candidates_node of a run on report, on the index as it is
GetCandidatesCall(report) ==
    LET st == Merge(InitialState(report), ExtractInfoUpdate(InitialState(report)))
        found == GetCandidatesIndexed(bm25, st)
    IN  /\ lastCall' = [op |-> "get_candidates", arg |-> report]
        /\ ret' = IF found.kind = "raised" THEN found
                  ELSE [kind |-> "value", candidate_names |-> Take(found.names, 100)]
        /\ UNCHANGED <<weights, cands, sts, bms, pts, tes, btype, runs, ext, now, queries,
                       bm25, localizer>>

LocateNext ==
    \/ \E answers \in BOOLEAN : BuildBm25IndexCall(answers)
    \/ \E report \in Reports : GetCandidatesCall(report)
    \/ \E report \in LocateReports, n \in TopLocations, b \in BOOLEAN, l \in BOOLEAN :
           IdentifyBuggyLocations(report, n, b, l)

SpecLocate == LocateInit /\ [][LocateNext]_vars

(***************************************************************************)
(* The classifier's weight profiles as an object that is shared: classify  *)
(* hands out the entry of WEIGHT_PROFILES itself, not a copy.  localizer   *)
(* holds the table (profiles) and the weights the last classify or         *)
(* adjust_weights returned (dynamic_weights), which are either an entry of *)
(* the table or a dict of their own.                                       *)
(***************************************************************************)
Entry(t) == [kind |-> "entry", of |-> t]

OwnDict(w) == [kind |-> "dict", value |-> w]

\* the dict a reference stands for
Deref(loc, ref) == IF ref.kind = "entry" THEN loc.profiles[ref.of] ELSE ref.value

\* confidence * base + (1 - confidence) * generic, signal by signal
Blend(base_weights, generic, c) ==
    [num |-> [s \in DOMAIN base_weights.num |->
                 c[1] * base_weights.num[s] + (c[2] - c[1]) * generic.num[s]],
     den |-> c[2] * base_weights.den]

\* adjust_weights with adjusted = base_weights in place of adjusted = {}:
\* the blend is written into the dict that was passed
AdjustWeightsInPlace(loc, c) ==
    LET base == loc.dynamic_weights
        blend == Blend(Deref(loc, base), loc.profiles["GENERIC"], c)
    IN  IF 10 * c[1] >= 8 * c[2] THEN loc
        ELSE IF base.kind = "entry" THEN [loc EXCEPT !.profiles[base.of] = blend]
        ELSE [loc EXCEPT !.dynamic_weights = OwnDict(blend)]

\* BugTypeClassifier.adjust_weights(loc.dynamic_weights, c): base_weights
\* itself at a confidence of 0.8 or more, a new dict below
AdjustWeightsShared(loc, c) ==
    LET base == loc.dynamic_weights
    IN  IF 10 * c[1] >= 8 * c[2] THEN loc
        ELSE [loc EXCEPT !.dynamic_weights =
                  OwnDict(Blend(Deref(loc, base), loc.profiles["GENERIC"], c))]

\* the reports classified, by their pattern matches
ProfileMatches ==
    { NoMatches, Matches("NPE", 1, "NPE", 1), Matches("CCE", 2, "NPE", 1),
      Matches("IOE", 1, "CME", 1), Matches("AIOBE", 2, "IAE", 2) }

ProfilesInit ==
    /\ localizer = [profiles |-> WEIGHT_PROFILES, dynamic_weights |-> None]
    /\ ext = None
    /\ now = 0
    /\ cands = <<"Foo", "Bar">>
    /\ sts \in PartialFuns(Range(cands), StackValsNarrow)
    /\ bms = [n \in Range(cands) |-> 2]
    /\ pts = [n \in Range(cands) |-> 0]
    /\ tes \in [Range(cands) -> TestValsNarrow]
    /\ btype = "GENERIC"
    /\ weights = InitWeights(None)
    /\ lastCall = [op |-> "init", arg |-> None]
    /\ ret = [kind |-> "none"]
    /\ runs = NoRuns
    /\ RankerUnused

\* classification = classifier.classify(bug_report)
ClassifyShared(m) ==
    LET classification == Classify(m)
    IN  /\ localizer' = [localizer EXCEPT !.dynamic_weights = Entry(classification.bug_type)]
        /\ ret' = [kind |-> "classification",
                   value |-> [classification EXCEPT
                                 !.weights = localizer.profiles[classification.bug_type]]]
        /\ lastCall' = [op |-> "classify", arg |-> m]
        /\ UNCHANGED <<weights, cands, sts, bms, pts, tes, btype, runs, ext, now, rankerVars>>

\* classifier.adjust_weights(classification.weights, classification.confidence)
AdjustWeightsCall ==
    /\ lastCall.op = "classify"
    /\ localizer' = AdjustWeightsShared(localizer, ret.value.confidence)
    /\ ret' = [kind |-> "weights",
               value |-> Deref(localizer', localizer'.dynamic_weights)]
    /\ lastCall' = [op |-> "adjust_weights", arg |-> lastCall.arg]
    /\ UNCHANGED <<weights, cands, sts, bms, pts, tes, btype, runs, ext, now, rankerVars>>

\* judge_agent.set_weights(dynamic_weights)
SetDynamicWeights ==
    /\ localizer.dynamic_weights /= None
    /\ SetWeights(Deref(localizer, localizer.dynamic_weights))

\* the classifier and judge steps of BugLocalizer.localize_bug, and of the
\* graph's nodes: classify, set_weights with the weights of the
\* classification, judge with its bug type
LocalizeShared(m) ==
    LET classification == Classify(m)
        dynamic_weights == localizer.profiles[classification.bug_type]
    IN  /\ localizer' = [localizer EXCEPT !.dynamic_weights = Entry(classification.bug_type)]
        /\ weights' = NormalizeWeights(dynamic_weights)
        /\ btype' = classification.bug_type
        /\ ret' = Judge(cands, sts, bms, pts, tes, classification.bug_type, weights')
        /\ lastCall' = [op |-> "localize", arg |-> m]
        /\ UNCHANGED <<cands, sts, bms, pts, tes, runs, ext, now, rankerVars>>

ProfilesNext ==
    \/ \E m \in ProfileMatches : ClassifyShared(m)
    \/ AdjustWeightsCall
    \/ SetDynamicWeights
    \/ \E w \in JudgeProfiles : SetWeights(w)
    \/ \E bt \in BugTypeArgs : JudgeCall(bt)
    \/ \E m \in ProfileMatches : LocalizeShared(m)

SpecProfiles == ProfilesInit /\ [][ProfilesNext]_vars

(***************************************************************************)
(* The two rankings of scored candidate locations: _score_and_rank_        *)
(* candidates of the first localizer (src/bug_localizer.py) and            *)
(* _rank_candidates of the second.  A candidate is a dict with type, name  *)
(* and score; every candidate of the list is a dict of its own.            *)
(***************************************************************************)
\* the most candidates in one list
MaxCands == 3

\* SCORE_KEYWORD_MATCH, SCORE_POTENTIAL_CLASS, SCORE_STACK_TRACE_MATCH
CandidateScores == {3, 5, 10}

CandidateDicts ==
    [type : {"class", "method"}, name : {"Foo", "run"}, score : CandidateScores]

CandidateLists == UNION {[1..n -> CandidateDicts] : n \in 0..MaxCands}

Key(c) == <<c.type, c.name>>

\* the keys in the order in which the loop first meets them
FirstAt(candidates) ==
    {i \in 1..Len(candidates) : \A k \in 1..(i - 1) : Key(candidates[k]) /= Key(candidates[i])}

RECURSIVE Pick(_, _, _)
\* the elements of q at the indices in I, in order, from index k on
Pick(q, I, k) ==
    IF k > Len(q) THEN <<>>
    ELSE (IF k \in I THEN <<q[k]>> ELSE <<>>) \o Pick(q, I, k + 1)

\* _rank_candidates: scores[key] is a copy of the first candidate of the
\* key with score 0.0, to which the score of every candidate of the key is
\* added
RankCandidates(candidates) ==
    LET total(i) == SumSeq([k \in 1..Len(candidates) |->
                        IF Key(candidates[k]) = Key(candidates[i])
                        THEN candidates[k].score ELSE 0])
        entries == [i \in 1..Len(candidates) |-> [candidates[i] EXCEPT !.score = total(i)]]
    IN  SortResults(Pick(entries, FirstAt(candidates), 1))

\* _score_and_rank_candidates: location_scores[key] is the first candidate
\* of the key itself, so setting its score to 0.0 sets the candidate's, and
\* the first addition adds that 0.0
ScoreAndRankCandidates(candidates) ==
    LET first == FirstAt(candidates)
        total(i) == SumSeq([k \in 1..Len(candidates) |->
                        IF Key(candidates[k]) = Key(candidates[i]) /\ k \notin first
                        THEN candidates[k].score ELSE 0])
        entries == [i \in 1..Len(candidates) |-> [candidates[i] EXCEPT !.score = total(i)]]
    IN  SortResults(Pick(entries, first, 1))

CandidatesInit ==
    /\ \E candidates \in CandidateLists : lastCall = [op |-> "init", arg |-> candidates]
    /\ ret = [kind |-> "none"]
    /\ weights = InitWeights(None)
    /\ cands = <<>>
    /\ sts = EmptyDict
    /\ bms = EmptyDict
    /\ pts = EmptyDict
    /\ tes = EmptyDict
    /\ btype = "GENERIC"
    /\ runs = NoRuns
    /\ LocalizerUnused
    /\ RankerUnused

\* self._score_and_rank_candidates(candidates, extracted_bug_info)
ScoreAndRankCall ==
    /\ lastCall.op = "init"
    /\ ret' = [kind |-> "ranked", value |-> ScoreAndRankCandidates(lastCall.arg)]
    /\ lastCall' = [op |-> "_score_and_rank_candidates", arg |-> lastCall.arg]
    /\ UNCHANGED <<weights, cands, sts, bms, pts, tes, btype, runs, localizerVars, rankerVars>>

\* self._rank_candidates(candidates)
RankCandidatesCall ==
    /\ lastCall.op = "init"
    /\ ret' = [kind |-> "ranked", value |-> RankCandidates(lastCall.arg)]
    /\ lastCall' = [op |-> "_rank_candidates", arg |-> lastCall.arg]
    /\ UNCHANGED <<weights, cands, sts, bms, pts, tes, btype, runs, localizerVars, rankerVars>>

CandidatesNext == ScoreAndRankCall \/ RankCandidatesCall

SpecCandidates == CandidatesInit /\ [][CandidatesNext]_vars

(***************************************************************************)
(* Claims about JudgeAgent                                                 *)
(***************************************************************************)
Judged == lastCall.op = "judge" /\ ret.kind = "judgment"

\* the arguments' four scores of candidate c
ArgScore(c, s) ==
    CASE s = "stack_trace" -> Get(sts, c)
      [] s = "bm25" -> Get(bms, c)
      [] s = "pattern" -> Get(pts, c)
      [] OTHER -> Get(tes, c)

\* C1: for every candidate and all inputs to judge (any four score maps, any
\* installed weight profile) 0 <= final_score <= 1, and a candidate whose
\* four signal scores are all 0 has final_score exactly 0.
C1_FinalScoreInUnitInterval ==
    Judged =>
        \A i \in 1..Len(ret.candidates) :
            LET j == ret.candidates[i] IN
            /\ 0 <= j.final_score
            /\ j.final_score <= FinalDen(ret.weights_used)
            /\ (\A s \in Signals : ArgScore(j.class_name, s) = 0) => j.final_score = 0

\* C2: judge returns the candidates ordered by final_score descending, and
\* candidates of equal final_score in ascending order of their class name,
\* whatever their order in the input list.
C2_SortedTiesByName ==
    Judged =>
        \A i, k \in 1..Len(ret.candidates) :
            i < k =>
                LET a == ret.candidates[i]
                    b == ret.candidates[k]
                IN  \/ a.final_score > b.final_score
                    \/ /\ a.final_score = b.final_score
                       /\ NameRank[a.class_name] <= NameRank[b.class_name]

\* C3: for a candidate list of length N >= 0 judge returns N judgments whose
\* ranks are 1..N in result order; for N = 0 the ranked list is empty, the
\* consensus_rate is 0, and the call returns a result (no error).
C3_RanksDense ==
    lastCall.op = "judge" =>
        /\ ret.kind = "judgment"
        /\ Len(ret.candidates) = Len(cands)
        /\ \A i \in 1..Len(ret.candidates) : ret.candidates[i].rank = i
        /\ {ret.candidates[i].class_name : i \in 1..Len(ret.candidates)} = Range(cands)
        /\ cands = <<>> => ret.candidates = <<>> /\ ret.consensus_rate[1] = 0

C3_Witness ==
    /\ Judged
    /\ Len(ret.candidates) = 3
    /\ ret.candidates[1].final_score > ret.candidates[3].final_score

\* population variance of the scores of candidate c at the signals in P,
\* as E[x^2] - E[x]^2 = (n*sum(x^2) - sum(x)^2) / (n^2 * SScale^2): the numerator
VarianceNum(c, P) ==
    LET n == Cardinality(P)
        s1 == SumFun([s \in P |-> ArgScore(c, s)], P)
        s2 == SumFun([s \in P |-> ArgScore(c, s) * ArgScore(c, s)], P)
    IN  n * s2 - s1 * s1

\* the standard deviation over P is < t/10, resp. > t/10
StdevLess(c, P, t) ==
    100 * VarianceNum(c, P) < t * t * Cardinality(P) * Cardinality(P) * SScale * SScale

StdevMore(c, P, t) ==
    100 * VarianceNum(c, P) > t * t * Cardinality(P) * Cardinality(P) * SScale * SScale

\* C4 as stated: with s the population standard deviation of the candidate's
\* nonzero signal scores, consensus iff s < 0.2, conflict_resolved iff s > 0.4,
\* never both (stated for the candidates that have a nonzero score).
C4_FlagsByStdevOfNonzero ==
    Judged =>
        \A i \in 1..Len(ret.candidates) :
            LET j == ret.candidates[i]
                nz == {s \in Signals : ArgScore(j.class_name, s) /= 0}
            IN  nz /= {} =>
                    /\ j.consensus <=> StdevLess(j.class_name, nz, 2)
                    /\ j.conflict_resolved <=> StdevMore(j.class_name, nz, 4)
                    /\ ~(j.consensus /\ j.conflict_resolved)

\* C4 amended: with s the population standard deviation of the candidate's
\* positive (> 0) signal scores, a candidate with at least one positive score
\* has consensus iff s < 0.2 and conflict_resolved iff s > 0.4; a candidate
\* with no positive score has neither flag; the flags are never both true.
C4_FlagsByStdevOfPositive ==
    Judged =>
        \A i \in 1..Len(ret.candidates) :
            LET j == ret.candidates[i]
                pos == {s \in Signals : ArgScore(j.class_name, s) > 0}
            IN  /\ pos /= {} =>
                    /\ j.consensus <=> StdevLess(j.class_name, pos, 2)
                    /\ j.conflict_resolved <=> StdevMore(j.class_name, pos, 4)
                /\ pos = {} => ~j.consensus /\ ~j.conflict_resolved
                /\ ~(j.consensus /\ j.conflict_resolved)

\* a judged candidate with two or more positive scores in the middle band
\* (0.2 <= s <= 0.4), which has neither flag
C4_Witness ==
    /\ Judged
    /\ \E i \in 1..Len(ret.candidates) :
          LET j == ret.candidates[i]
              pos == {s \in Signals : ArgScore(j.class_name, s) > 0}
          IN  /\ Cardinality(pos) >= 2
              /\ ~StdevLess(j.class_name, pos, 2)
              /\ ~StdevMore(j.class_name, pos, 4)
              /\ ~j.consensus /\ ~j.conflict_resolved

\* C5: final_score = min(1, m * sum over the signals of
\* weight * score * confidence), confidence 1.0 for stack-trace when the
\* candidate is a key of the stack-trace scores and 0.5 otherwise, 0.8 for
\* relevance, 0.7 for pattern, 0.6 for coverage; m = 1.10 if consensus,
\* 0.95 if conflict_resolved, 1 otherwise.
C5_FinalScoreFormula ==
    Judged =>
        \A i \in 1..Len(ret.candidates) :
            LET j == ret.candidates[i]
                c == j.class_name
                w == ret.weights_used
                \* sum of weight*score*confidence, over w.den * 10 * 10
                raw == WeightGet(w, "stack_trace") * Get(sts, c)
                            * (IF c \in DOMAIN sts THEN 10 ELSE 5)
                       + WeightGet(w, "bm25") * Get(bms, c) * 8
                       + WeightGet(w, "pattern") * Get(pts, c) * 7
                       + WeightGet(w, "test") * Get(tes, c) * 6
                \* m in hundredths
                m == IF j.consensus THEN 110 ELSE IF j.conflict_resolved THEN 95 ELSE 100
                one == w.den * 10 * 10 * 100
            IN  \* final_score / FinalDen(w) = min(1, (m * raw) / one)
                /\ FinalDen(w) = one * 100
                /\ j.final_score = (IF m * raw < one THEN m * raw ELSE one) * 100

\* a judged candidate with conflict_resolved, a positive pattern score and a
\* fused score strictly between 0 and 1
C5_Witness ==
    /\ Judged
    /\ \E i \in 1..Len(ret.candidates) :
          LET j == ret.candidates[i] IN
          /\ j.conflict_resolved
          /\ j.final_score > 0
          /\ j.final_score < FinalDen(ret.weights_used)
          /\ Get(pts, j.class_name) > 0

\* C6: after JudgeAgent(weights) or set_weights(weights), for any weight
\* profile, the weights the judge uses for fusion sum to 1.0.
C6_WeightsSumToOne == SumsToOne(weights)

\* the profile handed to the constructor or to set_weights by the latest call
Installed(w) ==
    /\ lastCall.op \in {"init", "set_weights"}
    /\ lastCall.arg /= None
    /\ lastCall.arg = w

\* C7: installing a weight profile whose weights are all zero is surfaced to
\* the caller as an error, and no fusion ever uses such a profile.
C7_ZeroProfileRejected ==
    /\ \A w \in WeightArgs :
          (Installed(w) /\ DOMAIN w.num /= {} /\ AllZero(w)) => ret.kind = "error"
    /\ Judged =>
          ~(DOMAIN ret.weights_used.num /= {} /\ AllZero(ret.weights_used))

(***************************************************************************)
(* Claims about BugLocalizationGraph                                       *)
(***************************************************************************)
\* the trace entries of the first k stages, in stage order
TracePrefix(k) == [i \in 1..k |-> TraceTag[StageSeq[i]]]

\* C8: every localize call runs the seven stages once each in the order
\* extract_info, classify_bug, get_candidates, compute_bm25, detect_patterns,
\* analyze_tests, judge_fusion: a run standing in front of its k-th stage has
\* traced exactly the k-1 stages before it, one entry each in that order, and
\* the agent_trace a call returns holds the seven entries in that order.
C8_StagesOnceInOrder ==
    \A id \in Calls :
        LET r == runs[id]
        IN  /\ r.pc \in Stages =>
                  \E k \in 1..Len(StageSeq) :
                      /\ StageSeq[k] = r.pc
                      /\ r.state.agent_trace = TracePrefix(k - 1)
            /\ r.pc = "END" => r.state.agent_trace = TracePrefix(Len(StageSeq))
            /\ r.pc = "returned" => r.result.agent_trace = TracePrefix(Len(StageSeq))

C8_Witness ==
    /\ runs["c1"].pc = "returned"
    /\ Len(runs["c1"].result.agent_trace) = 7
    /\ runs["c1"].result.total_candidates = 2
    /\ runs["c2"].pc = "analyze_tests"

ScoringStages == {"compute_bm25", "detect_patterns", "analyze_tests"}

\* the run has executed node n
Done(id, n) ==
    /\ runs[id].pc \notin {"idle"}
    /\ TraceTag[n] \in Range(runs[id].state.agent_trace)

\* C9: once get_candidates has run, each of the three scoring stages that
\* has not run yet is ready to run, whichever of the other two have run; and
\* judge_fusion is ready only after all three have run.
C9_ScoringStagesConcurrent ==
    \A id \in Calls :
        /\ Done(id, "get_candidates") =>
              \A n \in ScoringStages : Done(id, n) \/ Runnable(id, n)
        /\ Runnable(id, "judge_fusion") => \A n \in ScoringStages : Done(id, n)

\* the final state of a call that has the orchestrator to itself
Alone(report) ==
    LET s0 == InitialState(report)
        s1 == Merge(s0, ExtractInfoUpdate(s0))
        s2 == Merge(s1, ClassifyBugUpdate(s1))
        s3 == Merge(s2, GetCandidatesUpdate(s2))
        s4 == Merge(s3, ComputeBm25Update(s3))
        s5 == Merge(s4, DetectPatternsUpdate(s4))
        s6 == Merge(s5, AnalyzeTestsUpdate(s5))
    IN  Merge(s6, JudgeFusionUpdate(s6, NormalizeWeights(Classify(report.matches).weights)))

\* C10: with two calls interleaved node by node, each call ends in the state,
\* and returns the result, it would have alone: its ranking is the fusion of
\* its own scores under the normalised weight profile of its own report's
\* classification, whatever the other call has done to the judge meanwhile.
C10_OwnWeightsUnderInterleaving ==
    \A id \in Calls :
        LET r == runs[id]
        IN  /\ r.pc = "END" => r.state = Alone(r.state.bug_report)
            /\ r.pc = "returned" => r.result = Result(Alone(r.state.bug_report))

C10_Witness ==
    /\ runs["c1"].pc = "returned"
    /\ runs["c2"].pc = "returned"
    /\ runs["c1"].result.bug_type = "CCE"
    /\ runs["c2"].result.bug_type = "AIOBE"
    /\ Len(runs["c1"].result.top_k) = 2
    /\ Len(runs["c2"].result.top_k) = 2
    /\ runs["c1"].state.bug_report.frames = runs["c2"].state.bug_report.frames
    /\ runs["c1"].result.top_k[1].score /= runs["c2"].result.top_k[1].score
    /\ weights = NormalizeWeights(WEIGHT_PROFILES["CCE"])

\* the state key a scoring stage returns besides agent_trace
OwnField ==
    [n \in ScoringStages |->
        CASE n = "compute_bm25" -> "bm25_scores"
          [] n = "detect_patterns" -> "pattern_scores"
          [] OTHER -> "test_scores"]

\* the return value of scoring node n run on state st
ScoringUpdate(n, st) ==
    CASE n = "compute_bm25" -> ComputeBm25Update(st)
      [] n = "detect_patterns" -> DetectPatternsUpdate(st)
      [] OTHER -> AnalyzeTestsUpdate(st)

ScoringOrders ==
    {o \in [1..3 -> ScoringStages] : \A i, j \in 1..3 : i /= j => o[i] /= o[j]}

RECURSIVE RunScoring(_, _)
\* the state after the scoring nodes have run on st in the order o
RunScoring(st, o) ==
    IF o = <<>> THEN st
    ELSE RunScoring(Merge(st, ScoringUpdate(Head(o), st)), Tail(o))

\* the final_rankings fusion computes on state st
FusedRankings(st) ==
    JudgeFusionUpdate(st, NormalizeWeights(st.dynamic_weights)).final_rankings

\* a step in which run id executes scoring node n changes, of id's state,
\* only n's own field and agent_trace, which gains one entry
ScoringStepFrame(id, n) ==
    (runs[id].pc = n /\ runs'[id].pc /= n) =>
        /\ \A k \in DOMAIN runs[id].state :
              k \notin {OwnField[n], "agent_trace"} => runs'[id].state[k] = runs[id].state[k]
        /\ Len(runs'[id].state.agent_trace) = Len(runs[id].state.agent_trace) + 1
        /\ SubSeq(runs'[id].state.agent_trace, 1, Len(runs[id].state.agent_trace))
             = runs[id].state.agent_trace

\* C11: compute_bm25 changes only bm25_scores, detect_patterns only
\* pattern_scores, analyze_tests only test_scores, each plus one appended
\* agent_trace entry, so none changes bug_report, keywords,
\* stack_trace_classes, candidate_names, bug_type or dynamic_weights; and from
\* the state get_candidates leaves, the three scoring nodes run in any of the
\* six orders lead fusion to the same final_rankings.
C11_ScoringStagesFrame ==
    /\ [][\A id \in Calls : \A n \in ScoringStages : ScoringStepFrame(id, n)]_vars
    /\ [](\A id \in Calls :
             runs[id].pc = "compute_bm25" =>
                 \A o1, o2 \in ScoringOrders :
                     FusedRankings(RunScoring(runs[id].state, o1))
                         = FusedRankings(RunScoring(runs[id].state, o2)))

C11_Witness ==
    /\ runs["c1"].pc = "judge_fusion"
    /\ runs["c1"].state.candidate_names = <<"Foo", "Bar">>
    /\ runs["c1"].state.test_scores = [c \in {"Foo", "Bar"} |-> IF c = "Bar" THEN 3 ELSE 0]
    /\ runs["c1"].state.pattern_scores = [c \in {"Foo", "Bar"} |-> 0]
    /\ runs["c1"].state.bug_type = "AIOBE"

(***************************************************************************)
(* Claims about BugLocalizer                                               *)
(***************************************************************************)
\* the external call answered with the service's rate-limit response
RateLimited(call) ==
    call.outcome.kind = "error" /\ call.outcome.message = RateLimitMessage

\* this step makes an external call
ExternalCallStep ==
    /\ ext'.op = "extract"
    /\ ext'.calls /= <<>>
    /\ ~(ext.op = "extract" /\ ext'.calls = ext.calls)

\* C12: a step in which the last of MAX_RETRIES attempts of an extraction is
\* answered with a rate limit, as all before it were, sets use_llm to False;
\* once use_llm is False no step sets it again and no step makes an external
\* call; and every extraction that returns while use_llm is False returns
\* the keyword parser's result with source 'keyword'.
C12_CircuitBreakerStaysOpen ==
    /\ [][(/\ ext.pc = "generate"
           /\ ext'.pc = "returned"
           /\ Len(ext'.calls) = MAX_RETRIES
           /\ \A i \in 1..MAX_RETRIES : RateLimited(ext'.calls[i]))
          => ~localizer'.use_llm]_vars
    /\ [][~localizer.use_llm => (~localizer'.use_llm /\ ~ExternalCallStep)]_vars
    /\ []((~localizer.use_llm /\ ext.pc = "returned")
            => ext.result = KeywordOnly(ext.report))

C12_Witness ==
    /\ localizer.llm_provider = JStr("gemini")
    /\ ~localizer.use_llm
    /\ ext.pc = "returned"
    /\ ext.calls = <<>>
    /\ ext.result.source = "keyword"
    /\ now >= GEMINI_DELAY + INITIAL_BACKOFF + 2 * INITIAL_BACKOFF

\* C13: an extraction makes at most MAX_RETRIES external calls; every call
\* but its last was answered with a rate-limit response and was followed by
\* a wait of at least INITIAL_BACKOFF * 2^attempt seconds (10, then 20); so
\* it stops at the first success, at the first error that is no rate limit,
\* or at the last attempt.
C13_RetriesOnlyAfterRateLimit ==
    ext.op = "extract" =>
        /\ Len(ext.calls) <= MAX_RETRIES
        /\ \A i \in 1..(Len(ext.calls) - 1) :
              /\ RateLimited(ext.calls[i])
              /\ ext.calls[i + 1].at - ext.calls[i].at >= INITIAL_BACKOFF * (2 ^ (i - 1))
        /\ ext.pc = "backoff" => RateLimited(ext.calls[Len(ext.calls)])

\* the external call of the extraction failed: it raised, or its text does
\* not parse
ExternalFailed ==
    /\ ext.calls /= <<>>
    /\ LET last == ext.calls[Len(ext.calls)].outcome
       IN  last.kind = "error" \/ ~last.text.json

\* C14: extract_bug_information returns an extraction result for every
\* outcome of the external call, never an exception; and when the external
\* call failed the result is the keyword parser's, with source 'keyword'.
C14_ExtractionNeverRaises ==
    (ext.op = "extract" /\ ext.pc = "returned") =>
        /\ ext.result.kind = "result"
        /\ ExternalFailed => ext.result = KeywordOnly(ext.report)

(***************************************************************************)
(* Claims about BugTypeClassifier                                          *)
(***************************************************************************)
Classified == lastCall.op = "classify" /\ ret.kind = "classification"

\* the weight w equals the weight v, each a profile's num[s] over its den
SameWeight(wn, wd, vn, vd) == wn * vd = vn * wd

\* C16: when classify yields a confidence below 0.8, the profile it returns
\* is, signal by signal, confidence * category + (1 - confidence) * generic.
C16_LowConfidenceBlends ==
    Classified =>
        LET c == ret.value
            blend == AdjustWeights(WEIGHT_PROFILES[c.bug_type], c.confidence)
        IN  10 * c.confidence[1] < 8 * c.confidence[2] =>
                \A s \in Signals :
                    SameWeight(c.weights.num[s], c.weights.den, blend.num[s], blend.den)

\* C17: with no match at all classify returns GENERIC, confidence 0.5 and
\* the GENERIC profile; otherwise it returns a bug type with the largest
\* match count, with confidence that count over the count of all matches,
\* which is at most 1 and is 1 when one bug type alone has matches.
C17_ClassifyByMatchCount ==
    Classified =>
        LET c == ret.value
            m == lastCall.arg
            total == SumFun(m, BugTypes)
        IN  IF total = 0
            THEN /\ c.bug_type = "GENERIC"
                 /\ c.confidence[1] * 2 = c.confidence[2]
                 /\ c.weights = WEIGHT_PROFILES["GENERIC"]
            ELSE /\ c.bug_type \in BugTypes
                 /\ \A t \in BugTypes : m[t] <= m[c.bug_type]
                 /\ c.confidence[1] * total = m[c.bug_type] * c.confidence[2]
                 /\ c.confidence[1] <= c.confidence[2]
                 /\ (\A t \in BugTypes \ {c.bug_type} : m[t] = 0)
                        => c.confidence[1] = c.confidence[2]

C17_Witness ==
    /\ Classified
    /\ ret.value.bug_type = "CME"
    /\ lastCall.arg["NPE"] = 1
    /\ lastCall.arg["CME"] = 2
    /\ lastCall.arg["IOE"] = 2
    /\ ret.value.confidence = <<2, 5>>

(***************************************************************************)
(* Claims about BM25Ranker                                                 *)
(***************************************************************************)
\* the document ids in ascending order of Python's string comparison
IdOrder == <<"A", "a.Foo", "a.FooBar", "b.Foo", "c.Zip">>

IdBefore(x, y) ==
    (CHOOSE i \in 1..Len(IdOrder) : IdOrder[i] = x)
        < (CHOOSE i \in 1..Len(IdOrder) : IdOrder[i] = y)

\* (doc_id, score) x comes before y: a higher score, or an equal score and
\* a lower id
RankedBefore(x, y) ==
    \/ x.score > y.score
    \/ x.score = y.score /\ IdBefore(x.doc_id, y.doc_id)

\* the indexed documents with a positive score for the query
Positive(r, query) ==
    { [doc_id |-> id, score |-> Score(r, query, id).score] :
        id \in {d \in DOMAIN r.doc_terms : Score(r, query, d).score > 0} }

RankReturned(c) ==
    /\ queries /= NoRuns
    /\ queries[c].op = "rank"
    /\ queries[c].pc = "returned"

ScoreReturned(c) ==
    /\ queries /= NoRuns
    /\ queries[c].op = "score"
    /\ queries[c].pc = "returned"

\* C18: rank(query, top_k) returns the first top_k of the indexed documents
\* with a score above 0, ordered by score descending and, at equal scores,
\* by document id ascending.
C18_RankOrderedTiesById ==
    \A c \in Callers :
        RankReturned(c) =>
            LET res == queries[c].result.result
                P == Positive(bm25, queries[c].query)
                n == IF Cardinality(P) < queries[c].top_k
                     THEN Cardinality(P) ELSE queries[c].top_k
            IN  /\ Len(res) = n
                /\ \A i \in 1..n : res[i] \in P
                /\ \A i \in 1..n : \A j \in 1..n : i < j => RankedBefore(res[i], res[j])
                /\ \A x \in P : \/ \E j \in 1..n : x = res[j]
                                \/ \A i \in 1..n : RankedBefore(res[i], x)

\* a query term occurs in the document as the ranker holds it
TermOccurs(r, query, doc_id) ==
    /\ doc_id \in DOMAIN r.doc_terms
    /\ \E i \in 1..Len(Tokenize(query)) : Tokenize(query)[i] \in DOMAIN r.doc_terms[doc_id]

\* C19: score returns 0 whenever no query term occurs in the document: for
\* terms in no document, for an unknown or zero-length document and for an
\* index fitted on no documents; it never divides by a zero average length,
\* in a score call or in a pass of rank.
C19_ScoreZeroWithoutTerm ==
    /\ \A c \in Callers :
          ScoreReturned(c) =>
              LET q == queries[c]
                  zero == q.result = [kind |-> "value", score |-> 0]
              IN  /\ q.result.kind = "value"
                  /\ ~TermOccurs(bm25, q.query, q.doc_id) => zero
                  /\ (\A i \in 1..Len(Tokenize(q.query)) :
                          Tokenize(q.query)[i] \notin DOMAIN bm25.doc_freqs) => zero
                  /\ q.doc_id \notin DOMAIN bm25.doc_lens => zero
                  /\ (q.doc_id \in DOMAIN bm25.doc_lens /\ bm25.doc_lens[q.doc_id] = 0) => zero
                  /\ bm25.N = 0 => zero
    /\ \A c \in Callers : RankReturned(c) => queries[c].result.kind = "value"

C19_Witness ==
    /\ ScoreReturned("q1")
    /\ bm25.N = 0
    /\ queries["q1"].result.score = 0
    /\ ScoreReturned("q2")
    /\ queries["q2"].doc_id = "A"

\* C20: once fit has run, no step of a score or rank call changes N, avgdl,
\* doc_freqs, doc_lens, doc_terms or doc_metadata, and every call returns,
\* under any interleaving, what the call gives when run alone.
C20_QueriesReadOnly ==
    /\ [][lastCall.op = "fit" => bm25' = bm25]_vars
    /\ [](\A c \in Callers :
            /\ RankReturned(c) =>
                   queries[c].result = Rank(bm25, queries[c].query, queries[c].top_k)
            /\ ScoreReturned(c) =>
                   queries[c].result = Score(bm25, queries[c].query, queries[c].doc_id))

C20_Witness ==
    /\ RankReturned("q1")
    /\ Len(queries["q1"].result.result) = 2
    /\ queries["q2"].op = "rank"
    /\ queries["q2"].pc = "scoring"
    /\ queries["q2"].k = 1
    /\ queries["q2"].query /= queries["q1"].query

(***************************************************************************)
(* Claims about BugLocalizer.identify_buggy_locations                      *)
(***************************************************************************)
Identified == lastCall.op = "identify_buggy_locations"

\* C15: when the knowledge graph has no connection, or one of its lookups
\* fails, identify_buggy_locations still returns a ranked list, built from
\* the documents of the index alone; nothing is raised to the caller.
C15_LocateWithoutStore ==
    (Identified /\ (localizer.driver = None \/ ~lastCall.answers)) =>
        /\ ret.kind = "value"
        /\ \A i \in 1..Len(ret.results) : ret.results[i].name \in DOMAIN bm25.doc_terms

(***************************************************************************)
(* Claims about the candidates of a run                                    *)
(***************************************************************************)
\* the simple names of the classes named in the stack frames of a report
FrameClassNames(report) ==
    {c[Len(c)] : c \in Range(FrameClasses(report.frames))}

Finished(id) == runs /= NoRuns /\ runs[id].pc = "returned"

\* C21: every class named in a stack frame of the report is among the
\* candidates handed to the judge, has stack-trace score 1.0 and appears in
\* the final ranking of the run.
C21_StackClassesRanked ==
    \A id \in Calls :
        Finished(id) =>
            LET st == runs[id].state
            IN  \A cls \in FrameClassNames(st.bug_report) :
                    /\ cls \in Range(st.candidate_names)
                    /\ st.stack_trace_scores[cls] = SScale
                    /\ \E i \in 1..Len(st.final_rankings) :
                           st.final_rankings[i].class_name = cls

(***************************************************************************)
(* Claims about BugLocalizer._merge_results                                *)
(***************************************************************************)
\* an extraction has returned the merge of the keyword and the external result
Merged ==
    /\ ext /= None
    /\ ext.pc = "returned"
    /\ ext.result.kind = "result"
    /\ ext.result.source = "hybrid"

\* C22: the stack_trace_classes of a merged result are exactly those of the
\* keyword parser; names only the external service reports are not added.
C22_MergedStackTraceIsKeywordList ==
    Merged =>
        ext.result.info.stack_trace_classes = KeywordParse(ext.report).stack_trace_classes

\* C23: in a merged result the keyword, class and method lists are the
\* unions of the keyword parser's and the external lists, both_classes and
\* both_methods are the names in both sources, and every name of
\* both_classes (both_methods) is in potential_classes (potential_methods).
C23_MergedListsAreUnions ==
    Merged =>
        LET info == ext.result.info
            kw == KeywordParse(ext.report)
            llm == ParseJson(ext.calls[Len(ext.calls)].outcome.text)
            from(k) == Range(LlmGet(llm, k).val)
        IN  /\ info.keywords = kw.keywords \cup from("keywords")
            /\ info.potential_classes = kw.potential_classes \cup from("potential_classes")
            /\ info.potential_methods = kw.potential_methods \cup from("potential_methods")
            /\ info.both_classes = kw.potential_classes \cap from("potential_classes")
            /\ info.both_methods = kw.potential_methods \cap from("potential_methods")
            /\ info.both_classes \subseteq info.potential_classes
            /\ info.both_methods \subseteq info.potential_methods

(***************************************************************************)
(* Further claims about JudgeAgent                                         *)
(***************************************************************************)
\* C24: judge called again on the same candidates, score maps, weights and
\* bug type returns the same ranked list, scores, flags, ranks and
\* explanations, and a judge call leaves the judge's weights as they were.
C24_JudgeRepeatable ==
    [][ lastCall'.op = "judge" =>
            /\ weights' = weights
            /\ (lastCall.op = "judge" /\ btype' = btype) => ret' = ret ]_vars

C24_Witness ==
    /\ Judged
    /\ lastCall.repeated
    /\ Len(ret.candidates) >= 2
    /\ \E i \in 1..Len(ret.candidates) : ret.candidates[i].consensus
    /\ weights /= InitWeights(None)

(***************************************************************************)
(* Claims about TestFailureAgent in a run                                  *)
(***************************************************************************)
\* C25: the test agent of the orchestrator holds no test files and no
\* co-occurrence relation, and get_test_scores gives every candidate of
\* every report the score 0.
C25_NoCoverageScoresZero ==
    \A id \in Calls :
        Finished(id) =>
            \A c \in DOMAIN runs[id].state.test_scores :
                runs[id].state.test_scores[c] = 0

(***************************************************************************)
(* Claims about candidate gathering                                        *)
(***************************************************************************)
Distinct(q) == \A i, j \in 1..Len(q) : q[i] = q[j] => i = j

Gathered == lastCall.op = "get_candidates" /\ ret.kind = "value"

PositiveSignals(c) == {s \in Signals : ArgScore(c, s) > 0}

\* C27: the consensus bonus of 10% goes only to a candidate on which at
\* least three agents agree: one with consensus has a positive score from
\* three signals or more; with fewer it gets no bonus.
C27_BonusNeedsThreeAgents ==
    Judged =>
        \A i \in 1..Len(ret.candidates) :
            ret.candidates[i].consensus =>
                Cardinality(PositiveSignals(ret.candidates[i].class_name)) >= 3

(***************************************************************************)
(* Claims about the ranking of scored candidates                           *)
(***************************************************************************)
\* the sum of the scores of the candidates with key k
KeyTotal(candidates, k) ==
    SumSeq([i \in 1..Len(candidates) |->
               IF Key(candidates[i]) = k THEN candidates[i].score ELSE 0])

\* C28: _score_and_rank_candidates returns one entry for each distinct key
\* (type, name), with the sum of the scores of all candidates of that key,
\* in descending order of these sums.
C28_ScoresSummedPerKey ==
    lastCall.op = "_score_and_rank_candidates" =>
        LET ranked == ret.value
            candidates == lastCall.arg
        IN  /\ \A i, j \in 1..Len(ranked) : Key(ranked[i]) = Key(ranked[j]) => i = j
            /\ {Key(ranked[i]) : i \in 1..Len(ranked)}
                   = {Key(candidates[i]) : i \in 1..Len(candidates)}
            /\ \A i \in 1..Len(ranked) :
                   ranked[i].score = KeyTotal(candidates, Key(ranked[i]))
            /\ \A i \in 1..(Len(ranked) - 1) : ranked[i].score >= ranked[i + 1].score

(***************************************************************************)
(* Further claims about BM25Ranker                                         *)
(***************************************************************************)
\* C29: after any sequence of fit calls the index is the one the last
\* document set alone gives, so the document frequency of every term is at
\* most N and the IDF of every indexed term is positive.
C29_FitReplacesIndex ==
    lastCall.op = "fit" =>
        LET last == Fit(NewRanker, lastCall.arg)
        IN  /\ bm25.N = last.N
            /\ bm25.avgdl = last.avgdl
            /\ bm25.doc_freqs = last.doc_freqs
            /\ bm25.doc_terms = last.doc_terms
            /\ bm25.doc_lens = last.doc_lens
            /\ \A t \in DOMAIN bm25.doc_freqs :
                   /\ bm25.doc_freqs[t] <= bm25.N
                   /\ IdfSign(bm25, t) = 1

\* the part of C29 that one call of fit on a new ranker does give
C29_FirstFitBounded ==
    (lastCall.op = "fit" /\ lastCall.fits = 1) =>
        \A t \in DOMAIN bm25.doc_freqs :
            bm25.doc_freqs[t] <= bm25.N /\ IdfSign(bm25, t) = 1

(***************************************************************************)
(* Claims about the shared weight profiles                                 *)
(***************************************************************************)
\* C30: no sequence of classify, set_weights, judge and localize calls
\* changes the classifier's table of weight profiles: the profile of every
\* bug type stays what it was at the start.
C30_ProfilesKept == localizer.profiles = WEIGHT_PROFILES

\* the judge has judged with the normalised copy of a table entry that
\* classify handed out by reference
C30_Witness ==
    /\ lastCall.op = "judge"
    /\ localizer.dynamic_weights = Entry("CCE")
    /\ weights = NormalizeWeights(WEIGHT_PROFILES["CCE"])
    /\ ret.weights_used = weights

====
